---- MODULE Spec2Model ----
(***************************************************************************)
(* State-machine model of the CI tool launcher                             *)
(* (shared/ci_tools/c_src/ci_tool_launcher.c): one launcher process, the   *)
(* child it forks, the three pipes between them, the launcher's own        *)
(* standard streams, the optional TCP connection to the socket bridge and  *)
(* the SIGINT/SIGTERM handler.  One action per system call of main(),      *)
(* socket_bridge() and handle_signal(); the child program and the peers    *)
(* are the environment.                                                    *)
(***************************************************************************)
EXTENDS Integers, Sequences, FiniteSets, TLC

(* ------------------------------ bounds --------------------------------- *)
\* bytes the environment may type on the launcher's own stdin
MaxOwnIn == 2
\* bytes the child may write to its stdout
MaxChildOut == 2
\* bytes the child may write to its stderr
MaxChildErr == 1
\* bytes the network peer may send
MaxNetIn == 1
\* tokens after --args on the command line
MaxArgTokens == 65
\* failed reads of the child's stdout in one run
MaxReadErrors == 1
\* select() calls that fail with EINTR in one run
MaxEintrs == 1
\* library calls on one message-bus backend in one run
MaxBusCalls == 5
\* message-bus commands in one run
MaxCmds == 4
\* send commands run while one recv command runs
MaxSends == 3
\* capacity of a pipe, in bytes
PipeCap == 1

(* ------------------------- program constants --------------------------- *)
BUFFER_SIZE == 4096
\* int retries = 50
RETRIES == 50
SIGINT == 2
SIGTERM == 15
\* the pid fork() returns in the parent
ChildPid == 7

\* the byte a writer produces after the bytes in sent: every byte of a stream
\* differs from the others, so a loss, a repeat or a swap shows
NextByte(sent) == Len(sent) + 1
\* exit codes of the child: success, and the exit(1) after a failed execvp
ExitCodes == {0, 1}
\* signals that may end the child: SIGKILL (9) from anywhere, and the SIGTERM
\* the launcher sends
KillSignals == {9, SIGTERM}
\* values the --port option may carry, NoPort when the option is absent
NoPort == -100
PortArgs == {NoPort, 0, 5000}

(* ------------------------- wait status words --------------------------- *)
\* W_EXITCODE(ret, sig): the status word waitpid stores
WExited(code) == code * 256
WSignaled(sig) == sig
\* WEXITSTATUS(status) == ((status) & 0xff00) >> 8
WEXITSTATUS(s) == (s \div 256) % 256
\* marks an int that was declared and never assigned
UNINIT == -1
\* what an int that was never assigned may hold when it is read
UninitInts == {WExited(0), WExited(1), WExited(3)}

(* ----------------------------- helpers --------------------------------- *)
Min(a, b) == IF a < b THEN a ELSE b
Take(s, n) == SubSeq(s, 1, Min(n, Len(s)))
Drop(s, n) == SubSeq(s, Min(n, Len(s)) + 1, Len(s))
IsPrefix(s, t) == Len(s) <= Len(t) /\ SubSeq(t, 1, Len(s)) = s

VARIABLES
    pc,          \* position of main()
    hstack,      \* signals whose handle_signal() frame is on top of main(), innermost last
    config,      \* the LaunchConfig parse_args() built
    child_pid,   \* static pid_t child_pid
    ret,         \* value of the last fork() not yet stored
    env,         \* the launcher's environment (names of the variables set)
    childEnv,    \* the environment snapshot the child got at fork
    child,       \* "none" | "running" | "zombie" | "reaped"
    childStatus, \* status word of the child once it has terminated
    termPending, \* a SIGTERM is pending for the child
    childFd,     \* the child's ends of the pipes: which are still open
    fd,          \* the launcher's descriptors
    inPipe,      \* bytes in the child-stdin pipe
    outPipe,     \* bytes in the child-stdout pipe
    errPipe,     \* bytes in the child-stderr pipe
    ownIn,       \* bytes pending on the launcher's own stdin
    ownInEof,    \* the launcher's own stdin has been closed by its writer
    net,         \* the TCP peer: listening state and bytes in both directions
    buffer,      \* char buffer[BUFFER_SIZE], the chunk last read
    rset,        \* read_fds as select() returned it
    retries,     \* int retries
    attempts,    \* connect() calls of the retry loop so far
    status,      \* int status of main(), UNINIT until waitpid stores it
    exitVia,     \* how the launcher ended, "none" while it runs
    exitCode,    \* the launcher's exit status
    log,         \* counters of the calls issued so far
    trace,       \* the byte sequences that crossed each stream so far
    argv,        \* argv[1..argc-1], the tokens of the command line
    backend,     \* the message-bus program the calls go to: "mq", "ux" or "both"
    bus,         \* per message-bus backend, the queues of one CI name
    hnd,         \* per backend, the descriptor the receiving process holds, -1 if none
    hist,        \* per backend, the calls or commands made so far with their results
    rcv,         \* the recv command of the socket backend: position, count, timeout_ms
    tenv         \* tekton-clean-launch: position of main(), its env list, the files, environ

\* what no step of a started launcher changes
restVars == <<argv, backend, bus, hnd, hist, rcv, tenv>>
procVars == <<pc, hstack, config, restVars, child_pid, ret, env, buffer, rset, retries,
              attempts, status, exitVia, exitCode>>
childVars == <<childEnv, child, childStatus, termPending, childFd>>
ioVars == <<fd, inPipe, outPipe, errPipe, ownIn, ownInEof, net>>
vars == <<procVars, childVars, ioVars, log, trace>>

(* --------------------------- parse_args -------------------------------- *)
\* the LaunchConfig built from the options on the command line
parse_args(exe, tool, port) ==
    [executable |-> exe,
     tool_name |-> tool,
     port |-> IF port = NoPort THEN 0 ELSE port,
     socket_mode |-> IF port = NoPort THEN 0 ELSE 1]

(* ---------------------- parse_args, token by token ---------------------- *)
\* A token is an integer: a negative one is an option word, a token n >= 0 is
\* the decimal numeral n (any other word behaves like one to strcmp()).
OPT_TOOL == -1
OPT_EXECUTABLE == -2
OPT_PORT == -3
OPT_ARGS == -4
NULL == -9
MAX_ARGS == 64
ExePath == 100
ToolName == 101

\* atoi(): the value of a numeral, 0 for a word that does not start with a digit
atoi(tok) == IF tok >= 0 THEN tok ELSE 0

\* calloc(1, sizeof(LaunchConfig)): every field zero
ZeroConfig == [tool_name |-> NULL, executable |-> NULL, args |-> <<>>,
               port |-> 0, socket_mode |-> 0]

\* while (i < argc && arg_count < MAX_ARGS - 1) config->args[arg_count++] = argv[i++];
ArgsCopied(av, i) == Take(Drop(av, i - 1), MAX_ARGS - 1)

\* the for loop of parse_args() from index i on; av[i] is argv[i], argc = Len(av) + 1
RECURSIVE ParseLoop(_, _, _)
ParseLoop(av, i, cfg) ==
    IF i > Len(av) THEN cfg
    ELSE IF av[i] = OPT_TOOL /\ i + 1 <= Len(av)
        THEN ParseLoop(av, i + 2, [cfg EXCEPT !.tool_name = av[i + 1]])
    ELSE IF av[i] = OPT_EXECUTABLE /\ i + 1 <= Len(av)
        THEN ParseLoop(av, i + 2, [cfg EXCEPT !.executable = av[i + 1]])
    ELSE IF av[i] = OPT_PORT /\ i + 1 <= Len(av)
        THEN ParseLoop(av, i + 2, [cfg EXCEPT !.port = atoi(av[i + 1]), !.socket_mode = 1])
    ELSE IF av[i] = OPT_ARGS
        THEN [cfg EXCEPT !.args = ArgsCopied(av, i + 1)]
    ELSE ParseLoop(av, i + 1, cfg)

\* final_args: the executable, then the tokens kept in config->args
FinalArgs(cfg) == <<cfg.executable>> \o cfg.args

\* the LaunchConfig parse_args() returns for a command line with --executable
ParseArgv(av) ==
    LET cfg == ParseLoop(av, 1, ZeroConfig)
    IN  [cfg EXCEPT !.args = FinalArgs(cfg)]

\* the command line of a launch with the given options and no --args
CommandLine(exe, tool, port) ==
    (IF tool THEN <<OPT_TOOL, ToolName>> ELSE <<>>)
    \o (IF exe THEN <<OPT_EXECUTABLE, ExePath>> ELSE <<>>)
    \o (IF port = NoPort THEN <<>> ELSE <<OPT_PORT, port>>)

\* the launcher process as main() is entered, the command line apart
InitState ==
    /\ pc = "parse_args"
    /\ hstack = <<>>
    /\ child_pid = -1
    /\ ret = -1
    /\ env = {}
    /\ childEnv = {}
    /\ child = "none"
    /\ childStatus = 0
    /\ termPending = FALSE
    /\ childFd = [in |-> FALSE, out |-> FALSE, err |-> FALSE]
    /\ fd = [stdin_w |-> "none", stdout_r |-> "none", stderr_r |-> "none",
             child_ends |-> "none", sock |-> "none"]
    /\ inPipe = <<>>
    /\ outPipe = <<>>
    /\ errPipe = <<>>
    /\ ownIn = <<>>
    /\ ownInEof = FALSE
    /\ net = [state |-> "refusing", toLauncher |-> <<>>, fromLauncher |-> <<>>]
    /\ buffer = <<>>
    /\ rset = {}
    /\ retries = 0
    /\ attempts = 0
    /\ status = UNINIT
    /\ exitVia = "none"
    /\ exitCode = -1
    /\ log = [forks |-> 0, reaps |-> 0, staleWaits |-> 0, kills |-> 0,
              staleKills |-> 0, handlers |-> 0, selectErrors |-> 0,
              stdinCloses |-> 0, staleUse |-> FALSE, readErrors |-> 0,
              eintrs |-> 0]
    /\ trace = [ownInRead |-> <<>>, childIn |-> <<>>, childOut |-> <<>>,
                ownOut |-> <<>>, childErr |-> <<>>, ownErr |-> <<>>,
                netRecv |-> <<>>]

\* no message-bus program has run
BusIdle ==
    /\ backend = "none"
    /\ bus = <<>>
    /\ hnd = <<>>
    /\ hist = <<>>
    /\ rcv = <<>>
    /\ tenv = <<>>

Init ==
    /\ InitState
    /\ BusIdle
    /\ \E exe \in BOOLEAN, tool \in BOOLEAN, port \in PortArgs :
           /\ argv = CommandLine(exe, tool, port)
           /\ config = parse_args(exe, tool, port)

\* main() runs: the launcher has not exited and no handler frame is on top
MainRuns == exitVia = "none" /\ hstack = <<>>

\* exit(code) or return from main
Exit(via, code) ==
    /\ exitVia' = via
    /\ exitCode' = code

(* ------------------------- main(): start-up ---------------------------- *)
\* parse_args() ends the program when --executable is missing
Main_ParseArgs ==
    /\ MainRuns /\ pc = "parse_args"
    /\ IF config.executable
          THEN pc' = "signal" /\ UNCHANGED <<exitVia, exitCode>>
          ELSE pc' = "exited" /\ Exit("startup_error", 1)
    /\ UNCHANGED <<hstack, config, restVars, child_pid, ret, env, buffer, rset, retries, attempts, status>>
    /\ UNCHANGED <<childVars, ioVars, log, trace>>

\* signal(SIGTERM, handle_signal); signal(SIGINT, ...); signal(SIGPIPE, SIG_IGN)
Main_Signal ==
    /\ MainRuns /\ pc = "signal"
    /\ pc' = "pipe"
    /\ UNCHANGED <<hstack, config, restVars, child_pid, ret, env, buffer, rset, retries, attempts,
                   status, exitVia, exitCode>>
    /\ UNCHANGED <<childVars, ioVars, log, trace>>

\* the handlers are installed once signal() has run
HandlersInstalled == pc \notin {"parse_args", "signal"}

\* pipe(stdin_pipe), pipe(stdout_pipe), pipe(stderr_pipe)
Main_Pipe ==
    /\ MainRuns /\ pc = "pipe"
    /\ \E ok \in BOOLEAN :
          IF ok
             THEN /\ fd' = [fd EXCEPT !.stdin_w = "open", !.stdout_r = "open",
                                      !.stderr_r = "open", !.child_ends = "open"]
                  /\ pc' = "fork"
                  /\ UNCHANGED <<exitVia, exitCode>>
             ELSE /\ pc' = "exited" /\ Exit("startup_error", 1)
                  /\ UNCHANGED fd
    /\ UNCHANGED <<hstack, config, restVars, child_pid, ret, env, buffer, rset, retries, attempts, status>>
    /\ UNCHANGED <<childVars, inPipe, outPipe, errPipe, ownIn, ownInEof, net, log, trace>>

\* fork(): on success the child exists from here on, with a copy of the
\* launcher's environment and of the pipe descriptors; the value returned
\* is not yet stored in child_pid
Main_Fork ==
    /\ MainRuns /\ pc = "fork"
    /\ \E ok \in BOOLEAN :
          IF ok
             THEN /\ ret' = ChildPid
                  /\ child' = "running"
                  /\ childEnv' = env
                  /\ childFd' = [in |-> TRUE, out |-> TRUE, err |-> TRUE]
                  /\ log' = [log EXCEPT !.forks = @ + 1]
             ELSE /\ ret' = -1
                  /\ UNCHANGED <<child, childEnv, childFd, log>>
    /\ pc' = "store_pid"
    /\ UNCHANGED <<hstack, config, restVars, child_pid, env, buffer, rset, retries, attempts,
                   status, exitVia, exitCode>>
    /\ UNCHANGED <<childStatus, termPending, ioVars, trace>>

\* if (child_pid < 0): fork() failed
ForkFailedOnZero(r) == r = 0
ForkFailed(r) == r < 0

\* child_pid = fork(); if (child_pid < 0) { perror; exit(1); }
Main_StorePid ==
    /\ MainRuns /\ pc = "store_pid"
    /\ child_pid' = ret
    /\ IF ForkFailed(ret)
          THEN pc' = "exited" /\ Exit("startup_error", 1)
          ELSE pc' = "close_unused" /\ UNCHANGED <<exitVia, exitCode>>
    /\ UNCHANGED <<hstack, config, restVars, ret, env, buffer, rset, retries, attempts, status>>
    /\ UNCHANGED <<childVars, ioVars, log, trace>>

\* parent: close(stdin_pipe[0]); close(stdout_pipe[1]); close(stderr_pipe[1])
Main_CloseUnused ==
    /\ MainRuns /\ pc = "close_unused"
    /\ fd' = [fd EXCEPT !.child_ends = "closed"]
    /\ pc' = "putenv"
    /\ UNCHANGED <<hstack, config, restVars, child_pid, ret, env, buffer, rset, retries, attempts,
                   status, exitVia, exitCode>>
    /\ UNCHANGED <<childVars, inPipe, outPipe, errPipe, ownIn, ownInEof, net, log, trace>>

\* the variables the putenv() calls of main() add to the environment
putenv(e, cfg) ==
    e \cup (IF cfg.port > 0 THEN {"TEKTON_CI_PORT"} ELSE {})
      \cup (IF cfg.tool_name THEN {"TEKTON_CI_TOOL"} ELSE {})

\* "Set environment for child", then the branch on config->socket_mode
Main_Putenv ==
    /\ MainRuns /\ pc = "putenv"
    /\ env' = putenv(env, config)
    /\ pc' = IF config.socket_mode = 1 THEN "socket" ELSE "fcntl"
    /\ UNCHANGED <<hstack, config, restVars, child_pid, ret, buffer, rset, retries, attempts,
                   status, exitVia, exitCode>>
    /\ UNCHANGED <<childVars, ioVars, log, trace>>

(* --------------------------- handle_signal ----------------------------- *)
\* kill(pid, SIGTERM) as the kernel sees it: a running child gets the signal
\* pending, a zombie is unaffected, a reaped pid names no child of ours
Kill(c, pending) == pending \/ c = "running"

\* the log after a kill(child_pid, SIGTERM)
LogKill == [log EXCEPT !.kills = @ + 1,
                       !.staleKills = IF child = "reaped" THEN @ + 1 ELSE @]

\* if (child_pid > 0): the handler's test of the tracked child
HasChildNonZero(p) == p # 0
HasChild(p) == p > 0

\* SIGINT or SIGTERM is delivered to the launcher.  Before signal() has run
\* the default action ends the process.  Afterwards handle_signal() starts on
\* top of whatever was running: with child_pid > 0 it sends the kill and
\* enters waitpid, otherwise it calls exit(0) at once.  signal() blocks a
\* signal only while its own handler runs, so the other one can still
\* interrupt the handler.
Deliver(sig) ==
    /\ exitVia = "none"
    /\ \A i \in 1..Len(hstack) : hstack[i] # sig
    /\ IF ~HandlersInstalled
          THEN /\ pc' = "exited" /\ Exit("killed", 128 + sig)
               /\ UNCHANGED <<hstack, log, termPending>>
          ELSE IF HasChild(child_pid)
          THEN /\ hstack' = Append(hstack, sig)
               /\ termPending' = Kill(child, termPending)
               /\ log' = [LogKill EXCEPT !.handlers = @ + 1]
               /\ UNCHANGED <<pc, exitVia, exitCode>>
          ELSE /\ pc' = "exited" /\ Exit("signal", 0)
               /\ log' = [log EXCEPT !.handlers = @ + 1]
               /\ UNCHANGED <<hstack, termPending>>
    /\ UNCHANGED <<config, restVars, child_pid, ret, env, buffer, rset, retries, attempts, status>>
    /\ UNCHANGED <<childEnv, child, childStatus, childFd, ioVars, trace>>

\* waitpid(child_pid, NULL, 0); exit(0): blocks while the child runs, reaps a
\* zombie, fails with ECHILD when the child was reaped before
Handler_Wait ==
    /\ exitVia = "none" /\ hstack # <<>>
    /\ child \in {"zombie", "reaped"}
    /\ IF child = "zombie"
          THEN child' = "reaped" /\ log' = [log EXCEPT !.reaps = @ + 1]
          ELSE UNCHANGED child /\ log' = [log EXCEPT !.staleWaits = @ + 1]
    /\ pc' = "exited" /\ Exit("signal", 0)
    /\ UNCHANGED <<hstack, config, restVars, child_pid, ret, env, buffer, rset, retries, attempts, status>>
    /\ UNCHANGED <<childEnv, childStatus, termPending, childFd, ioVars, trace>>

(* ------------------- the child program (environment) ------------------- *)
ChildRuns == exitVia = "none" /\ child = "running"

\* the child writes one byte to its stdout; it blocks while the pipe is full
ChildWriteStdout ==
    /\ ChildRuns /\ childFd.out
    /\ fd.stdout_r = "open"
    /\ Len(trace.childOut) < MaxChildOut
    /\ Len(outPipe) < PipeCap
    /\ outPipe' = Append(outPipe, NextByte(trace.childOut))
    /\ trace' = [trace EXCEPT !.childOut = Append(@, NextByte(@))]
    /\ UNCHANGED <<procVars, childVars, fd, inPipe, errPipe, ownIn, ownInEof, net, log>>

\* the child writes one byte to its stderr
ChildWriteStderr ==
    /\ ChildRuns /\ childFd.err
    /\ fd.stderr_r = "open"
    /\ Len(trace.childErr) < MaxChildErr
    /\ Len(errPipe) < PipeCap
    /\ errPipe' = Append(errPipe, NextByte(trace.childErr))
    /\ trace' = [trace EXCEPT !.childErr = Append(@, NextByte(@))]
    /\ UNCHANGED <<procVars, childVars, fd, inPipe, outPipe, ownIn, ownInEof, net, log>>

\* the child reads one byte from its stdin
ChildReadStdin ==
    /\ ChildRuns /\ childFd.in
    /\ inPipe # <<>>
    /\ inPipe' = Tail(inPipe)
    /\ UNCHANGED <<procVars, childVars, fd, outPipe, errPipe, ownIn, ownInEof, net, log, trace>>

\* the child closes one of its standard descriptors
ChildClose(which) ==
    /\ ChildRuns /\ childFd[which]
    /\ childFd' = [childFd EXCEPT ![which] = FALSE]
    /\ UNCHANGED <<procVars, childEnv, child, childStatus, termPending, ioVars, log, trace>>

\* the child ends: its descriptors close and it stays a zombie until reaped
ChildEnds(st) ==
    /\ child' = "zombie"
    /\ childStatus' = st
    /\ childFd' = [in |-> FALSE, out |-> FALSE, err |-> FALSE]
    /\ UNCHANGED <<procVars, childEnv, termPending, ioVars, log, trace>>

\* exit(code) in the child: the program's own exit, or exit(1) after a failed execvp
ChildExit(code) == ChildRuns /\ ChildEnds(WExited(code))

\* exit(0) in a program that leaves a background process behind: the process
\* it forked inherited the stdout and stderr it got from dup2 and keeps them
\* open, so only the child's stdin end closes
ChildExitHeir ==
    /\ ChildRuns
    /\ childFd.out \/ childFd.err
    /\ child' = "zombie"
    /\ childStatus' = WExited(0)
    /\ childFd' = [childFd EXCEPT !.in = FALSE]
    /\ UNCHANGED <<procVars, childEnv, termPending, ioVars, log, trace>>

\* the child is killed by a signal: SIGKILL from anywhere, or the default
\* action of the SIGTERM the launcher sent
ChildKilled(sig) ==
    /\ ChildRuns
    /\ sig = SIGTERM => termPending
    /\ ChildEnds(WSignaled(sig))

(* ----------------- the launcher's own stdin (environment) -------------- *)
\* somebody writes one byte to the launcher's stdin; what is pending there is
\* itself held in a pipe, so one read() never returns more than a pipe holds
OwnStdinWrite ==
    /\ exitVia = "none" /\ ~ownInEof
    /\ Len(trace.ownInRead) + Len(ownIn) < MaxOwnIn
    /\ Len(ownIn) < PipeCap
    /\ ownIn' = Append(ownIn, NextByte(trace.ownInRead \o ownIn))
    /\ UNCHANGED <<procVars, childVars, fd, inPipe, outPipe, errPipe, ownInEof, net, log, trace>>

\* the writer of the launcher's stdin closes it
OwnStdinClose ==
    /\ exitVia = "none" /\ ~ownInEof
    /\ ownInEof' = TRUE
    /\ UNCHANGED <<procVars, childVars, fd, inPipe, outPipe, errPipe, ownIn, net, log, trace>>

(* ---------------------- main(): stdio-relay mode ----------------------- *)
\* what select() finds readable: data, or end-of-stream once every write
\* end of the pipe is closed
StdinReady == ownIn # <<>> \/ ownInEof
WritersGone(which) == ~childFd[which] /\ fd.child_ends = "closed"
OutReady == outPipe # <<>> \/ WritersGone("out")
ErrReady == errPipe # <<>> \/ WritersGone("err")
ReadyStdio == (IF StdinReady THEN {"stdin"} ELSE {})
              \cup (IF OutReady THEN {"out"} ELSE {})
              \cup (IF ErrReady THEN {"err"} ELSE {})

\* fcntl(stdout_pipe[0], F_SETFL, flags | O_NONBLOCK), the same for stderr
Main_Fcntl ==
    /\ MainRuns /\ pc = "fcntl"
    /\ pc' = "select"
    /\ UNCHANGED <<hstack, config, restVars, child_pid, ret, env, buffer, rset, retries, attempts,
                   status, exitVia, exitCode>>
    /\ UNCHANGED <<childVars, ioVars, log, trace>>

\* select() over {STDIN_FILENO, stdout_pipe[0], stderr_pipe[0]} returns the
\* descriptors that are readable; it blocks while none is
Main_Select ==
    /\ MainRuns /\ pc = "select"
    /\ ReadyStdio # {}
    /\ rset' = ReadyStdio
    /\ pc' = "read_stdin"
    /\ UNCHANGED <<hstack, config, restVars, child_pid, ret, env, buffer, retries, attempts,
                   status, exitVia, exitCode>>
    /\ UNCHANGED <<childVars, ioVars, log, trace>>

\* if (errno == EINTR) continue; ... break;  where a failed select() leads:
\* back to the loop head on EINTR, out of the loop on any other error
SelectFailNextBreak(err, head, out) == out
SelectFailNext(err, head, out) == IF err = "EINTR" THEN head ELSE out

\* the failed select() calls so far, the interrupted ones counted apart
LogSelectFail(err) ==
    IF err = "EINTR" THEN [log EXCEPT !.eintrs = @ + 1]
                     ELSE [log EXCEPT !.selectErrors = @ + 1]

\* select() < 0: EINTR repeats the loop, any other error leaves it
Main_SelectFails(err) ==
    /\ MainRuns /\ pc = "select"
    /\ err = "EINTR" => log.eintrs < MaxEintrs
    /\ pc' = SelectFailNext(err, "select", "cleanup")
    /\ log' = LogSelectFail(err)
    /\ UNCHANGED <<hstack, config, restVars, child_pid, ret, env, buffer, rset, retries, attempts,
                   status, exitVia, exitCode>>
    /\ UNCHANGED <<childVars, ioVars, trace>>

\* the count read() returns on a descriptor select() reported: the bytes
\* taken, 0 at end-of-stream, -1 (EAGAIN) when a non-blocking read finds nothing
ReadCount(pending, eof) ==
    IF pending # <<>> THEN Min(Len(pending), BUFFER_SIZE) ELSE IF eof THEN 0 ELSE -1

\* what the descriptor variable holds after close(stdin_pipe[1]) when the
\* assignment that follows it is left out: the number of a closed descriptor
ClosedMarkKept == "closed"

\* stdin_pipe[1] = -1
ClosedMark == "neg1"

\* the test  stdin_pipe[1] >= 0  on the descriptor variable
Usable(f) == f # "neg1"

\* the log after a close(stdin_pipe[1]): it closes an open descriptor, and is
\* issued on a stale number when the variable still names a closed one
LogCloseStdin ==
    [log EXCEPT !.stdinCloses = IF fd.stdin_w = "open" THEN @ + 1 ELSE @,
                !.staleUse = @ \/ fd.stdin_w = "closed"]

\* the stdin branch with a break on n <= 0
StdinReadNextBreak(n, usable) ==
    IF n <= 0 THEN "cleanup" ELSE IF usable THEN "write_stdin" ELSE "read_stdout"

\* where the loop body goes after read(STDIN_FILENO) returned n: to the write
\* when n > 0 and stdin_pipe[1] >= 0, otherwise on to the stdout branch
StdinReadNext(n, usable) == IF n > 0 /\ usable THEN "write_stdin" ELSE "read_stdout"

\* if (FD_ISSET(STDIN_FILENO)) n = read(STDIN_FILENO, buffer, BUFFER_SIZE):
\* n <= 0 closes the child's stdin and sets stdin_pipe[1] = -1, n > 0 goes
\* on to the write when stdin_pipe[1] >= 0
Main_ReadStdin ==
    /\ MainRuns /\ pc = "read_stdin"
    /\ IF "stdin" \notin rset
          THEN /\ pc' = "read_stdout"
               /\ UNCHANGED <<buffer, ownIn, fd, trace, log>>
          ELSE IF ReadCount(ownIn, ownInEof) > 0
          THEN /\ buffer' = IF Usable(fd.stdin_w) THEN Take(ownIn, BUFFER_SIZE) ELSE <<>>
               /\ ownIn' = Drop(ownIn, BUFFER_SIZE)
               /\ trace' = [trace EXCEPT !.ownInRead = @ \o Take(ownIn, BUFFER_SIZE)]
               /\ pc' = StdinReadNext(ReadCount(ownIn, ownInEof), Usable(fd.stdin_w))
               /\ UNCHANGED <<fd, log>>
          ELSE /\ fd' = [fd EXCEPT !.stdin_w = ClosedMark]
               /\ log' = LogCloseStdin
               /\ pc' = StdinReadNext(ReadCount(ownIn, ownInEof), Usable(fd.stdin_w))
               /\ UNCHANGED <<buffer, ownIn, trace>>
    /\ rset' = IF pc' = "cleanup" THEN {} ELSE rset
    /\ UNCHANGED <<hstack, config, restVars, child_pid, ret, env, retries, attempts,
                   status, exitVia, exitCode>>
    /\ UNCHANGED <<childVars, inPipe, outPipe, errPipe, ownInEof, net>>

\* a blocking write of one chunk to the child-stdin pipe: the bytes the pipe
\* then holds and the count returned; -1 (EPIPE, SIGPIPE is ignored) when the
\* child has closed its read end; not enabled while the pipe has no room
PipeWriteEnabled(chunk) == ~childFd.in \/ Len(inPipe) + Len(chunk) <= PipeCap
PipeWriteCount(chunk) == IF childFd.in THEN Len(chunk) ELSE -1
PipeWrite(chunk) == IF childFd.in THEN inPipe \o chunk ELSE inPipe

\* write(stdin_pipe[1], buffer, n); the value returned is not looked at.
\* The chunk in buffer is not read again after a write: the model empties it.
\* A write on the number of a closed descriptor transfers nothing.
Main_WriteStdin ==
    /\ MainRuns /\ pc = "write_stdin"
    /\ IF fd.stdin_w = "open"
          THEN /\ PipeWriteEnabled(buffer)
               /\ inPipe' = PipeWrite(buffer)
               /\ trace' = [trace EXCEPT !.childIn =
                               @ \o SubSeq(PipeWrite(buffer), Len(inPipe) + 1,
                                           Len(PipeWrite(buffer)))]
               /\ UNCHANGED log
          ELSE /\ log' = [log EXCEPT !.staleUse = TRUE]
               /\ UNCHANGED <<inPipe, trace>>
    /\ buffer' = <<>>
    /\ pc' = "read_stdout"
    /\ UNCHANGED <<hstack, config, restVars, child_pid, ret, env, rset, retries, attempts,
                   status, exitVia, exitCode>>
    /\ UNCHANGED <<childVars, fd, outPipe, errPipe, ownIn, ownInEof, net>>

\* the stdout branch without the break on n == 0
StdoutReadNextNoBreak(n) == "read_stderr"

\* where the loop body goes after read(stdout_pipe[0]) returned n: n == 0
\* breaks, n > 0 and n < 0 go on to the stderr branch
StdoutReadNext(n) == IF n = 0 THEN "cleanup" ELSE "read_stderr"

\* if (FD_ISSET(stdout_pipe[0])) n = read(stdout_pipe[0], buffer, BUFFER_SIZE):
\* n > 0 is written to STDOUT_FILENO, n == 0 breaks, n < 0 is skipped.
\* read_fds is rebuilt by FD_ZERO and FD_SET before it is read again: the model
\* empties it where the loop body has no further use for it.
Main_RelayStdout ==
    /\ MainRuns /\ pc = "read_stdout"
    /\ IF "out" \notin rset
          THEN pc' = "read_stderr" /\ UNCHANGED <<outPipe, trace>>
          ELSE /\ outPipe' = Drop(outPipe, BUFFER_SIZE)
               /\ trace' = [trace EXCEPT !.ownOut = @ \o Take(outPipe, BUFFER_SIZE)]
               /\ pc' = StdoutReadNext(ReadCount(outPipe, WritersGone("out")))
    /\ rset' = IF pc' = "cleanup" THEN {} ELSE rset
    /\ UNCHANGED <<hstack, config, restVars, child_pid, ret, env, buffer, retries, attempts,
                   status, exitVia, exitCode>>
    /\ UNCHANGED <<childVars, fd, inPipe, errPipe, ownIn, ownInEof, net, log>>

\* read(stdout_pipe[0], ...) fails with an error other than EAGAIN (EIO, say):
\* it returns -1, takes nothing from the pipe, and the loop body treats the
\* -1 as it treats every n < 0
Main_RelayStdoutFails ==
    /\ MainRuns /\ pc = "read_stdout"
    /\ "out" \in rset
    /\ log.readErrors < MaxReadErrors
    /\ log' = [log EXCEPT !.readErrors = @ + 1]
    /\ pc' = StdoutReadNext(-1)
    /\ rset' = IF pc' = "cleanup" THEN {} ELSE rset
    /\ UNCHANGED <<hstack, config, restVars, child_pid, ret, env, buffer, retries, attempts,
                   status, exitVia, exitCode>>
    /\ UNCHANGED <<childVars, ioVars, trace>>

\* the stderr branch with a break on n == 0
StderrReadNextBreak(n) == IF n = 0 THEN "cleanup" ELSE "poll"

\* where the loop body goes after read(stderr_pipe[0]) returned n: to the
\* exit-status poll, whatever n is
StderrReadNext(n) == "poll"

\* if (FD_ISSET(stderr_pipe[0])) n = read(stderr_pipe[0], ...): n > 0 is
\* written to STDERR_FILENO, anything else is skipped
Main_RelayStderr ==
    /\ MainRuns /\ pc = "read_stderr"
    /\ IF "err" \notin rset
          THEN pc' = "poll" /\ UNCHANGED <<errPipe, trace>>
          ELSE /\ errPipe' = Drop(errPipe, BUFFER_SIZE)
               /\ trace' = [trace EXCEPT !.ownErr = @ \o Take(errPipe, BUFFER_SIZE)]
               /\ pc' = StderrReadNext(ReadCount(errPipe, WritersGone("err")))
    /\ rset' = {}
    /\ UNCHANGED <<hstack, config, restVars, child_pid, ret, env, buffer, retries, attempts,
                   status, exitVia, exitCode>>
    /\ UNCHANGED <<childVars, fd, inPipe, outPipe, ownIn, ownInEof, net, log>>

\* int status; if (waitpid(child_pid, &status, WNOHANG) > 0) break;
\* the status it stores is the loop body's own variable, not the one main returns
Main_Poll ==
    /\ MainRuns /\ pc = "poll"
    /\ IF child = "zombie"
          THEN /\ child' = "reaped"
               /\ log' = [log EXCEPT !.reaps = @ + 1]
               /\ pc' = "cleanup"
          ELSE /\ pc' = "select"
               /\ UNCHANGED <<child, log>>
    /\ UNCHANGED <<hstack, config, restVars, child_pid, ret, env, buffer, rset, retries, attempts,
                   status, exitVia, exitCode>>
    /\ UNCHANGED <<childEnv, childStatus, termPending, childFd, ioVars, trace>>

(* ------------------------- main(): shutdown ---------------------------- *)
\* close(stdin_pipe[1]); close(stdout_pipe[0]); close(stderr_pipe[0])
Main_Cleanup ==
    /\ MainRuns /\ pc = "cleanup"
    /\ fd' = [fd EXCEPT !.stdin_w = IF @ = "open" THEN "closed" ELSE @,
                        !.stdout_r = "closed", !.stderr_r = "closed"]
    /\ log' = LogCloseStdin
    /\ pc' = "final_wait"
    /\ UNCHANGED <<hstack, config, restVars, child_pid, ret, env, buffer, rset, retries, attempts,
                   status, exitVia, exitCode>>
    /\ UNCHANGED <<childVars, inPipe, outPipe, errPipe, ownIn, ownInEof, net, trace>>

\* int status; waitpid(child_pid, &status, 0): blocks while the child runs,
\* stores the status of a zombie, fails with ECHILD and stores nothing when
\* the child was reaped before
Main_FinalWait ==
    /\ MainRuns /\ pc = "final_wait"
    /\ child \in {"zombie", "reaped"}
    /\ IF child = "zombie"
          THEN /\ child' = "reaped"
               /\ status' = childStatus
               /\ log' = [log EXCEPT !.reaps = @ + 1]
          ELSE /\ log' = [log EXCEPT !.staleWaits = @ + 1]
               /\ UNCHANGED <<child, status>>
    /\ pc' = "return"
    /\ UNCHANGED <<hstack, config, restVars, child_pid, ret, env, buffer, rset, retries, attempts,
                   exitVia, exitCode>>
    /\ UNCHANGED <<childEnv, childStatus, termPending, childFd, ioVars, trace>>

\* return WEXITSTATUS(status); a status never stored holds any value
Main_Return ==
    /\ MainRuns /\ pc = "return"
    /\ \E s \in (IF status = UNINIT THEN UninitInts ELSE {status}) :
           Exit("return", WEXITSTATUS(s))
    /\ pc' = "exited"
    /\ UNCHANGED <<hstack, config, restVars, child_pid, ret, env, buffer, rset, retries, attempts, status>>
    /\ UNCHANGED <<childVars, ioVars, log, trace>>

(* --------------------- main(): socket-bridge mode ---------------------- *)
\* sock_fd = socket(AF_INET, SOCK_STREAM, 0); a failure is exit(1);
\* then int retries = 50
Main_Socket ==
    /\ MainRuns /\ pc = "socket"
    /\ \E ok \in BOOLEAN :
          IF ok
             THEN /\ fd' = [fd EXCEPT !.sock = "open"]
                  /\ retries' = RETRIES
                  /\ pc' = "connect_loop"
                  /\ UNCHANGED <<exitVia, exitCode>>
             ELSE /\ pc' = "exited" /\ Exit("startup_error", 1)
                  /\ UNCHANGED <<fd, retries>>
    /\ UNCHANGED <<hstack, config, restVars, child_pid, ret, env, buffer, rset, attempts, status>>
    /\ UNCHANGED <<childVars, inPipe, outPipe, errPipe, ownIn, ownInEof, net, log, trace>>

\* whether a peer can be listening on the port connect() is given
CanAccept(cfg) == cfg.port > 0

\* the test as  while (--retries > 0)  would make it
RetryTestPreDecrement(r) == r - 1 > 0

\* the test of  while (retries-- > 0): the value before the decrement is compared
RetryTest(r) == r > 0

\* one turn of  while (retries-- > 0) { if (connect(...) == 0) break; usleep(100000); }
\* the test decrements retries whether it passes or not
Main_ConnectLoop ==
    /\ MainRuns /\ pc = "connect_loop"
    /\ retries' = retries - 1
    /\ IF RetryTest(retries)
          THEN /\ attempts' = attempts + 1
               /\ \E accepted \in {a \in BOOLEAN : a => CanAccept(config)} :
                     IF accepted
                        THEN /\ net' = [net EXCEPT !.state = "connected"]
                             /\ pc' = "retry_check"
                        ELSE /\ pc' = "connect_loop"
                             /\ UNCHANGED net
          ELSE /\ pc' = "retry_check"
               /\ UNCHANGED <<net, attempts>>
    /\ UNCHANGED <<hstack, config, restVars, child_pid, ret, env, buffer, rset,
                   status, exitVia, exitCode>>
    /\ UNCHANGED <<childVars, fd, inPipe, outPipe, errPipe, ownIn, ownInEof, log, trace>>

\* the test of  if (retries <= 0)  after the loop
RetriesExhausted(r) == r <= 0

\* if (retries <= 0) { "Failed to connect"; kill; exit(1); } else "Connected ...";
\* retries is not read again once the bridge starts: the model forgets it,
\* and the count of attempts with it, on that branch
Main_RetryCheck ==
    /\ MainRuns /\ pc = "retry_check"
    /\ IF RetriesExhausted(retries)
          THEN pc' = "fail_kill" /\ UNCHANGED <<retries, attempts>>
          ELSE pc' = "sb_select" /\ retries' = 0 /\ attempts' = 0
    /\ UNCHANGED <<hstack, config, restVars, child_pid, ret, env, buffer, rset,
                   status, exitVia, exitCode>>
    /\ UNCHANGED <<childVars, ioVars, log, trace>>

\* kill(child_pid, SIGTERM) after the retries ran out
Main_FailKill ==
    /\ MainRuns /\ pc = "fail_kill"
    /\ termPending' = Kill(child, termPending)
    /\ log' = LogKill
    /\ pc' = "fail_exit"
    /\ UNCHANGED <<hstack, config, restVars, child_pid, ret, env, buffer, rset, retries, attempts,
                   status, exitVia, exitCode>>
    /\ UNCHANGED <<childEnv, child, childStatus, childFd, ioVars, trace>>

\* exit(1) after the kill
Main_FailExit ==
    /\ MainRuns /\ pc = "fail_exit"
    /\ pc' = "exited" /\ Exit("connect_error", 1)
    /\ UNCHANGED <<hstack, config, restVars, child_pid, ret, env, buffer, rset, retries, attempts, status>>
    /\ UNCHANGED <<childVars, ioVars, log, trace>>

(* --------------------------- socket_bridge ----------------------------- *)
\* socket_bridge() handed the read end of the stderr pipe
BridgeSourceStderr == "err"

\* the pipe whose read end main() hands to socket_bridge() as stdout_fd:
\* socket_bridge(sock_fd, stdin_pipe[1], stdout_pipe[0])
BridgeSource == "out"

\* the bytes waiting on stdout_fd and whether its writers are gone
SourcePipe == IF BridgeSource = "out" THEN outPipe ELSE errPipe
SourceReady == IF BridgeSource = "out" THEN OutReady ELSE ErrReady

SockReady == net.toLauncher # <<>> \/ net.state = "peer_closed"
ReadyBridge == (IF SockReady THEN {"sock"} ELSE {})
               \cup (IF SourceReady THEN {BridgeSource} ELSE {})

\* a loop that goes on after a short write or send
ShortIgnored(count, n) == FALSE

\* the tests  write(stdin_fd, buffer, n) != n  and  send(sock_fd, buffer, n, 0) != n
Short(count, n) == count # n

\* the test  if (n <= 0) break  after recv() and read()
ReadEnds(n) == n <= 0

\* select() over {sock_fd, stdout_fd}
Bridge_Select ==
    /\ MainRuns /\ pc = "sb_select"
    /\ ReadyBridge # {}
    /\ rset' = ReadyBridge
    /\ pc' = "sb_recv"
    /\ UNCHANGED <<hstack, config, restVars, child_pid, ret, env, buffer, retries, attempts,
                   status, exitVia, exitCode>>
    /\ UNCHANGED <<childVars, ioVars, log, trace>>

\* select() < 0: EINTR repeats the loop, any other error leaves it
Bridge_SelectFails(err) ==
    /\ MainRuns /\ pc = "sb_select"
    /\ err = "EINTR" => log.eintrs < MaxEintrs
    /\ pc' = SelectFailNext(err, "sb_select", "close_sock")
    /\ log' = LogSelectFail(err)
    /\ UNCHANGED <<hstack, config, restVars, child_pid, ret, env, buffer, rset, retries, attempts,
                   status, exitVia, exitCode>>
    /\ UNCHANGED <<childVars, ioVars, trace>>

\* if (FD_ISSET(sock_fd)) { n = recv(sock_fd, buffer, BUFFER_SIZE, 0); if (n <= 0) break;
Bridge_Recv ==
    /\ MainRuns /\ pc = "sb_recv"
    /\ IF "sock" \notin rset
          THEN pc' = "sb_read" /\ UNCHANGED <<buffer, net, trace>>
          ELSE /\ buffer' = Take(net.toLauncher, BUFFER_SIZE)
               /\ net' = [net EXCEPT !.toLauncher = Drop(@, BUFFER_SIZE)]
               /\ trace' = [trace EXCEPT !.netRecv = @ \o Take(net.toLauncher, BUFFER_SIZE)]
               /\ pc' = IF ReadEnds(ReadCount(net.toLauncher, net.state = "peer_closed"))
                           THEN "close_sock" ELSE "sb_write"
    /\ rset' = IF pc' = "close_sock" THEN {} ELSE rset
    /\ UNCHANGED <<hstack, config, restVars, child_pid, ret, env, retries, attempts,
                   status, exitVia, exitCode>>
    /\ UNCHANGED <<childVars, fd, inPipe, outPipe, errPipe, ownIn, ownInEof, log>>

\* if (write(stdin_fd, buffer, n) != n) { perror; break; }
Bridge_Write ==
    /\ MainRuns /\ pc = "sb_write"
    /\ PipeWriteEnabled(buffer)
    /\ inPipe' = PipeWrite(buffer)
    /\ trace' = [trace EXCEPT !.childIn = @ \o SubSeq(PipeWrite(buffer), Len(inPipe) + 1,
                                                       Len(PipeWrite(buffer)))]
    /\ pc' = IF Short(PipeWriteCount(buffer), Len(buffer)) THEN "close_sock" ELSE "sb_read"
    /\ buffer' = <<>>
    /\ rset' = IF pc' = "close_sock" THEN {} ELSE rset
    /\ UNCHANGED <<hstack, config, restVars, child_pid, ret, env, retries, attempts,
                   status, exitVia, exitCode>>
    /\ UNCHANGED <<childVars, fd, outPipe, errPipe, ownIn, ownInEof, net, log>>

\* if (FD_ISSET(stdout_fd)) { n = read(stdout_fd, buffer, BUFFER_SIZE); if (n <= 0) break;
Bridge_Read ==
    /\ MainRuns /\ pc = "sb_read"
    /\ IF BridgeSource \notin rset
          THEN pc' = "sb_select" /\ UNCHANGED <<buffer, outPipe, errPipe>>
          ELSE /\ buffer' = Take(SourcePipe, BUFFER_SIZE)
               /\ outPipe' = IF BridgeSource = "out" THEN Drop(outPipe, BUFFER_SIZE) ELSE outPipe
               /\ errPipe' = IF BridgeSource = "out" THEN errPipe ELSE Drop(errPipe, BUFFER_SIZE)
               /\ pc' = IF ReadEnds(ReadCount(SourcePipe, WritersGone(BridgeSource)))
                           THEN "close_sock" ELSE "sb_send"
    /\ rset' = {}
    /\ UNCHANGED <<hstack, config, restVars, child_pid, ret, env, retries, attempts,
                   status, exitVia, exitCode>>
    /\ UNCHANGED <<childVars, fd, inPipe, ownIn, ownInEof, net, log, trace>>

\* the count send() returns: the peer takes the whole chunk, or the send
\* fails because the peer has gone
SendCount(chunk) == IF net.state = "connected" THEN Len(chunk) ELSE -1

\* if (send(sock_fd, buffer, n, 0) != n) { perror; break; }
Bridge_Send ==
    /\ MainRuns /\ pc = "sb_send"
    /\ net' = [net EXCEPT !.fromLauncher =
                  IF SendCount(buffer) > 0 THEN @ \o Take(buffer, SendCount(buffer)) ELSE @]
    /\ pc' = IF Short(SendCount(buffer), Len(buffer)) THEN "close_sock" ELSE "sb_select"
    /\ buffer' = <<>>
    /\ UNCHANGED <<hstack, config, restVars, child_pid, ret, env, rset, retries, attempts,
                   status, exitVia, exitCode>>
    /\ UNCHANGED <<childVars, fd, inPipe, outPipe, errPipe, ownIn, ownInEof, log, trace>>

\* socket_bridge() returned: close(sock_fd)
Main_CloseSock ==
    /\ MainRuns /\ pc = "close_sock"
    /\ fd' = [fd EXCEPT !.sock = "closed"]
    /\ pc' = "cleanup"
    /\ UNCHANGED <<hstack, config, restVars, child_pid, ret, env, buffer, rset, retries, attempts,
                   status, exitVia, exitCode>>
    /\ UNCHANGED <<childVars, inPipe, outPipe, errPipe, ownIn, ownInEof, net, log, trace>>

(* ---------------------- the bridge peer (environment) ------------------ *)
\* the peer sends one byte over the connection
PeerSend ==
    /\ exitVia = "none" /\ net.state = "connected" /\ fd.sock = "open"
    /\ Len(net.toLauncher) + Len(trace.netRecv) < MaxNetIn
    /\ net' = [net EXCEPT !.toLauncher = Append(@, NextByte(trace.netRecv \o @))]
    /\ UNCHANGED <<procVars, childVars, fd, inPipe, outPipe, errPipe, ownIn, ownInEof, log, trace>>

\* the peer closes the connection
PeerClose ==
    /\ exitVia = "none" /\ net.state = "connected" /\ fd.sock = "open"
    /\ net' = [net EXCEPT !.state = "peer_closed"]
    /\ UNCHANGED <<procVars, childVars, fd, inPipe, outPipe, errPipe, ownIn, ownInEof, log, trace>>

(* ------------------------------ the system ----------------------------- *)
\* the start-up and shutdown steps of main() that both modes share
main ==
    \/ Main_ParseArgs \/ Main_Signal \/ Main_Pipe \/ Main_Fork \/ Main_StorePid
    \/ Main_CloseUnused \/ Main_Putenv
    \/ Main_Cleanup \/ Main_FinalWait \/ Main_Return

\* the else branch of main(): the stdio relay loop
\* (an interrupted select() changes nothing but the count of interruptions:
\* it is part of SpecWait only)
stdio_relay ==
    \/ Main_Fcntl \/ Main_Select \/ Main_SelectFails("other")
    \/ Main_ReadStdin \/ Main_WriteStdin \/ Main_RelayStdout \/ Main_RelayStderr
    \/ Main_Poll

\* the if (config->socket_mode) branch of main() and socket_bridge()
socket_bridge ==
    \/ Main_Socket \/ Main_ConnectLoop \/ Main_RetryCheck \/ Main_FailKill
    \/ Main_FailExit \/ Main_CloseSock
    \/ Bridge_Select \/ Bridge_SelectFails("other")
    \/ Bridge_Recv \/ Bridge_Write \/ Bridge_Read \/ Bridge_Send

handle_signal ==
    \/ (\E sig \in {SIGINT, SIGTERM} : Deliver(sig))
    \/ Handler_Wait

Child ==
    \/ ChildWriteStdout \/ ChildWriteStderr \/ ChildReadStdin
    \/ (\E w \in {"in", "out", "err"} : ChildClose(w))
    \/ (\E c \in ExitCodes : ChildExit(c))
    \/ ChildExitHeir
    \/ (\E sig \in KillSignals : ChildKilled(sig))

OwnStdin == OwnStdinWrite \/ OwnStdinClose
Peer == PeerSend \/ PeerClose

Next == main \/ stdio_relay \/ socket_bridge \/ handle_signal \/ Child \/ OwnStdin \/ Peer

\* every launch configuration
Spec == Init /\ [][Next]_vars

\* launches without --port: stdio-relay mode
InitStdio == Init /\ config.socket_mode = 0
NextStdio == main \/ stdio_relay \/ handle_signal \/ Child \/ OwnStdin
SpecStdio == InitStdio /\ [][NextStdio]_vars

\* launches with --port: socket-bridge mode
InitSocket == Init /\ config.socket_mode = 1
NextSocket == main \/ socket_bridge \/ handle_signal \/ Child \/ Peer
SpecSocket == InitSocket /\ [][NextSocket]_vars

\* stdio-relay mode where a read of the child's stdout may fail, in runs
\* where no signal is sent to the launcher
NextStdioReadErr == main \/ stdio_relay \/ Main_RelayStdoutFails \/ Child \/ OwnStdin
SpecStdioReadErr == InitStdio /\ [][NextStdioReadErr]_vars

\* both modes where select() may also fail with EINTR, in runs where no signal
\* ends the launcher
NextWait ==
    \/ main \/ stdio_relay \/ socket_bridge \/ Child \/ OwnStdin \/ Peer
    \/ Main_SelectFails("EINTR") \/ Bridge_SelectFails("EINTR")
SpecWait == Init /\ [][NextWait]_vars

(* ------------------- parse_args() on whole command lines ---------------- *)
\* n tokens after --args; the p-th one, if any, spells the option word opt
ArgTokens(n, p, opt) == [i \in 1..n |-> IF i = p THEN opt ELSE 200 + i]

\* parse_args() as main() calls it, on the tokens of argv
Main_ParseArgv ==
    /\ MainRuns /\ pc = "parse_args"
    /\ LET cfg == ParseLoop(argv, 1, ZeroConfig)
       IN  IF cfg.executable # NULL
              THEN /\ config' = ParseArgv(argv)
                   /\ pc' = "signal"
                   /\ UNCHANGED <<exitVia, exitCode>>
              ELSE /\ config' = cfg
                   /\ pc' = "exited"
                   /\ Exit("startup_error", 1)
    /\ UNCHANGED <<hstack, restVars, child_pid, ret, env, buffer, rset, retries, attempts, status>>
    /\ UNCHANGED <<childVars, ioVars, log, trace>>

InitArgs ==
    /\ InitState
    /\ BusIdle
    /\ config = ZeroConfig
    /\ \E exe \in BOOLEAN, tool \in BOOLEAN, port \in PortArgs, withArgs \in BOOLEAN,
          n \in 0..MaxArgTokens, p \in 0..2, opt \in {OPT_PORT, OPT_ARGS} :
           argv = CommandLine(exe, tool, port)
                  \o (IF withArgs THEN <<OPT_ARGS>> \o ArgTokens(n, p, opt) ELSE <<>>)
NextArgs == Main_ParseArgv
SpecArgs == InitArgs /\ [][NextArgs]_vars

(* ============ the message bus: ci_message_bus.c, ci_message_bus_unix.c ==== *)
\* The state of one backend for one CI name.  name is the object the name
\* leads to (the kernel queue for "mq", the socket bound to the path for
\* "ux"), 0 when the name does not exist; q[g] holds the entries of object g,
\* oldest delivery first; open is the set of objects some process holds a
\* descriptor of.  Objects are numbered in the order they are created.
Backends == {"mq", "ux"}
NoQueues == [name |-> 0, open |-> {}, q |-> <<>>]

\* the launcher's variables, which no message-bus program touches
launcherVars == <<pc, hstack, config, child_pid, ret, env, buffer, rset, retries, attempts,
                  status, exitVia, exitCode, childVars, ioVars, log, trace, argv>>

\* attr.mq_maxmsg
mq_maxmsg == 100

\* the priority handed to mq_send() without the clamp
MqPrioUnclamped(p) == p

\* unsigned int prio = msg->priority; if (prio > 31) prio = 31;
MqPrio(p) == IF p < 0 \/ p > 31 THEN 31 ELSE p

\* mq_send(): the entry goes behind the entries of the same or a higher priority
Enqueue(buf, e) ==
    LET k == Cardinality({i \in 1..Len(buf) : buf[i].prio >= e.prio})
    IN  SubSeq(buf, 1, k) \o <<e>> \o SubSeq(buf, k + 1, Len(buf))

\* mq_receive() and recv() take the first entry out of the queue
DequeuePeek(buf) == buf
Dequeue(buf) == Tail(buf)

\* a new, empty object that the name leads to, opened by the caller
NewObject(s) ==
    LET g == Len(s.q) + 1
    IN  [s |-> [name |-> g, open |-> s.open \cup {g}, q |-> Append(s.q, <<>>)], h |-> g]

\* mq_open(queue_name, O_CREAT | O_RDWR | O_NONBLOCK, 0666, &attr): opens the
\* queue of that name, and creates it first when there is none
create_queue(s) ==
    IF s.name # 0 THEN [s |-> [s EXCEPT !.open = @ \cup {s.name}], h |-> s.name]
                  ELSE NewObject(s)

\* mq_open(queue_name, flags | O_NONBLOCK): -1 when there is no such queue
open_queue(s) ==
    IF s.name # 0 THEN [s |-> [s EXCEPT !.open = @ \cup {s.name}], h |-> s.name]
                  ELSE [s |-> s, h |-> -1]

\* send_message() with O_CREAT among the flags of its mq_open()
send_message_creating(s, msg) ==
    LET c == create_queue(s).s
    IN  [s |-> [c EXCEPT !.q[c.name] = Enqueue(@, [prio |-> MqPrio(msg.priority), msg |-> msg]),
                         !.open = s.open],
         rc |-> 0]

\* send_message(): open_queue(target, O_WRONLY), mq_send() without blocking
\* (a full queue is EAGAIN), mq_close()
send_message(s, msg) ==
    IF s.name = 0 \/ Len(s.q[s.name]) >= mq_maxmsg
       THEN [s |-> s, rc |-> -1]
       ELSE [s |-> [s EXCEPT !.q[s.name] =
                              Enqueue(@, [prio |-> MqPrio(msg.priority), msg |-> msg])],
             rc |-> 0]

\* receive_message(mq, &msg): 1 with the record, 0 on EAGAIN, -1 on another error
receive_message(s, h) ==
    IF h \notin s.open THEN [s |-> s, rc |-> -1, msgs |-> <<>>]
    ELSE IF s.q[h] = <<>> THEN [s |-> s, rc |-> 0, msgs |-> <<>>]
    ELSE [s |-> [s EXCEPT !.q[h] = Dequeue(@)], rc |-> 1, msgs |-> <<Head(s.q[h]).msg>>]

\* mq_unlink(queue_name) in destroy_queue(), unlink(socket_path) in the other
\* backend: the name is gone, the object stays for those who hold it open
unlink_name(s) == [s EXCEPT !.name = 0]

\* mq_close(mq), close(sock)
close_handle(s, h) == [s EXCEPT !.open = @ \ {h}]

\* create_ci_socket(): unlink(socket_path), socket(), bind() to the path
create_ci_socket(s) == NewObject(unlink_name(s))

\* send_message_to_ci(): -1 when access(socket_path) fails; sendto() fails
\* with ECONNREFUSED when no open socket is bound to the path; ret > 0 ? 0 : -1
send_message_to_ci(s, msg) ==
    IF s.name = 0 \/ s.name \notin s.open
       THEN [s |-> s, rc |-> -1]
       ELSE [s |-> [s EXCEPT !.q[s.name] = Append(@, [prio |-> 0, msg |-> msg])],
             rc |-> 0]

\* receive_message_from_socket() without the test of errno for EAGAIN
receive_message_from_socket_any_error(s, h) ==
    IF h \notin s.open \/ s.q[h] = <<>> THEN [s |-> s, rc |-> -1, msgs |-> <<>>]
    ELSE [s |-> [s EXCEPT !.q[h] = Dequeue(@)], rc |-> 1, msgs |-> <<Head(s.q[h]).msg>>]

\* receive_message_from_socket(sock, &msg): recv() on the non-blocking socket
receive_message_from_socket(s, h) ==
    IF h \notin s.open THEN [s |-> s, rc |-> -1, msgs |-> <<>>]
    ELSE IF s.q[h] = <<>> THEN [s |-> s, rc |-> 0, msgs |-> <<>>]
    ELSE [s |-> [s EXCEPT !.q[h] = Dequeue(@)], rc |-> 1, msgs |-> <<Head(s.q[h]).msg>>]

(* ------------------ the library calls, one backend at a time ------------- *)
\* the records sent: priority 40 is beyond the 31 of the queue priorities
Records == {[sender |-> "cli", type |-> "user_message", priority |-> p,
             timestamp |-> 1, content |-> "x"] : p \in {10, 40}}

\* the name exists; the queue object g exists and holds nothing
Exists(s) == s.name # 0
Empty(s, g) == g \in 1..Len(s.q) /\ s.q[g] = <<>>

\* the call is added to the history of the backend with what it returned
Called(op, rc, msgs, g) ==
    /\ Len(hist[backend]) < MaxBusCalls
    /\ hist' = [hist EXCEPT ![backend] =
                   Append(@, [op |-> op, rc |-> rc, msgs |-> msgs,
                              exists |-> Exists(bus[backend]),
                              empty |-> Empty(bus[backend], g)])]

\* the receiving process creates the queue and keeps the descriptor
Bus_Create ==
    /\ backend \in Backends
    /\ LET r == IF backend = "mq" THEN create_queue(bus[backend])
                                  ELSE create_ci_socket(bus[backend])
       IN  /\ bus' = [bus EXCEPT ![backend] = r.s]
           /\ hnd' = [hnd EXCEPT ![backend] = r.h]
           /\ Called("create", 0, <<>>, r.h)
    /\ UNCHANGED <<launcherVars, tenv, rcv, backend>>

\* some process sends the record msg to the name
Bus_Send(msg) ==
    /\ backend \in Backends
    /\ LET r == IF backend = "mq" THEN send_message(bus[backend], msg)
                                  ELSE send_message_to_ci(bus[backend], msg)
       IN  /\ bus' = [bus EXCEPT ![backend] = r.s]
           /\ Called("send", r.rc, <<msg>>, bus[backend].name)
    /\ UNCHANGED <<launcherVars, tenv, rcv, backend, hnd>>

\* the receiving process calls receive on the descriptor it holds
Bus_Receive ==
    /\ backend \in Backends
    /\ hnd[backend] # -1
    /\ LET r == IF backend = "mq" THEN receive_message(bus[backend], hnd[backend])
                                  ELSE receive_message_from_socket(bus[backend], hnd[backend])
       IN  /\ bus' = [bus EXCEPT ![backend] = r.s]
           /\ Called("receive", r.rc, r.msgs, hnd[backend])
    /\ UNCHANGED <<launcherVars, tenv, rcv, backend, hnd>>

\* the receiving process closes its descriptor
Bus_Close ==
    /\ backend \in Backends
    /\ hnd[backend] # -1
    /\ bus' = [bus EXCEPT ![backend] = close_handle(@, hnd[backend])]
    /\ hnd' = [hnd EXCEPT ![backend] = -1]
    /\ Called("close", 0, <<>>, hnd[backend])
    /\ UNCHANGED <<launcherVars, tenv, rcv, backend>>

\* destroy_queue(), or the unlink() of the destroy command
Bus_Destroy ==
    /\ backend \in Backends
    /\ bus' = [bus EXCEPT ![backend] = unlink_name(@)]
    /\ Called("destroy", 0, <<>>, bus[backend].name)
    /\ UNCHANGED <<launcherVars, tenv, rcv, backend, hnd>>

\* no queue exists and no call was made
BusStart ==
    /\ bus = [b \in Backends |-> NoQueues]
    /\ hnd = [b \in Backends |-> -1]
    /\ hist = [b \in Backends |-> <<>>]

InitBus ==
    /\ InitState /\ config = ZeroConfig /\ argv = <<>> /\ rcv = <<>> /\ tenv = <<>>
    /\ backend \in Backends
    /\ BusStart
NextBus ==
    \/ Bus_Create \/ (\E msg \in Records : Bus_Send(msg)) \/ Bus_Receive
    \/ Bus_Close \/ Bus_Destroy
SpecBus == InitBus /\ [][NextBus]_vars

(* --------------- the command-line programs, side by side ---------------- *)
\* the record main() builds for the send command
CliMsg(text) == [sender |-> "cli", type |-> "user_message", priority |-> 10,
                 timestamp |-> 1, content |-> text]

\* while (receive_message(mq, &msg) > 0): the records printed, in order
RECURSIVE Drain(_, _)
Drain(s, h) ==
    LET r == receive_message(s, h)
    IN  IF r.rc > 0
           THEN LET d == Drain(r.s, h) IN [s |-> d.s, msgs |-> r.msgs \o d.msgs]
           ELSE [s |-> r.s, msgs |-> <<>>]

\* main() of ci_message_bus.c: the state it leaves, its exit status and the
\* records it prints
mq_main(s, cmd, text) ==
    CASE cmd = "create" ->
            LET r == create_queue(s)
            IN  [s |-> close_handle(r.s, r.h), rc |-> 0, msgs |-> <<>>]
      [] cmd = "send" ->
            LET r == send_message(s, CliMsg(text))
            IN  [s |-> r.s, rc |-> IF r.rc = 0 THEN 0 ELSE 1, msgs |-> <<>>]
      [] cmd = "recv" ->
            LET o == open_queue(s)
            IN  IF o.h = -1 THEN [s |-> s, rc |-> 1, msgs |-> <<>>]
                ELSE LET d == Drain(o.s, o.h)
                     IN  [s |-> close_handle(d.s, o.h), rc |-> 0, msgs |-> d.msgs]
      [] cmd = "destroy" -> [s |-> unlink_name(s), rc |-> 0, msgs |-> <<>>]

\* main() of ci_message_bus_unix.c; recv binds a new socket to the path and
\* reads it once (the socket is new, so the read finds nothing and the loop
\* ends with "No messages in queue")
ux_main(s, cmd, text) ==
    CASE cmd = "create" ->
            LET r == create_ci_socket(s)
            IN  [s |-> close_handle(r.s, r.h), rc |-> 0, msgs |-> <<>>]
      [] cmd = "send" ->
            LET r == send_message_to_ci(s, CliMsg(text))
            IN  [s |-> r.s, rc |-> IF r.rc = 0 THEN 0 ELSE 1, msgs |-> <<>>]
      [] cmd = "recv" ->
            LET c == create_ci_socket(s)
                r == receive_message_from_socket(c.s, c.h)
            IN  [s |-> close_handle(r.s, c.h), rc |-> 0, msgs |-> r.msgs]
      [] cmd = "destroy" -> [s |-> unlink_name(s), rc |-> 0, msgs |-> <<>>]

\* one command is run to completion by both programs, each on its own queues
Cli_Run(cmd, text) ==
    /\ backend = "both"
    /\ Len(hist["mq"]) < MaxCmds
    /\ LET m == mq_main(bus["mq"], cmd, text)
           u == ux_main(bus["ux"], cmd, text)
       IN  /\ bus' = [mq |-> m.s, ux |-> u.s]
           /\ hist' = [mq |-> Append(hist["mq"], [op |-> cmd, rc |-> m.rc, msgs |-> m.msgs]),
                       ux |-> Append(hist["ux"], [op |-> cmd, rc |-> u.rc, msgs |-> u.msgs])]
    /\ UNCHANGED <<launcherVars, tenv, rcv, backend, hnd>>

InitCli ==
    /\ InitState /\ config = ZeroConfig /\ argv = <<>> /\ rcv = <<>> /\ tenv = <<>>
    /\ backend = "both"
    /\ BusStart
NextCli == \E cmd \in {"create", "send", "recv", "destroy"}, text \in {"x", "y"} :
               Cli_Run(cmd, IF cmd = "send" THEN text ELSE "")
SpecCli == InitCli /\ [][NextCli]_vars

(* ------- the recv command of ci_message_bus_unix.c, with senders -------- *)
\* int sock = create_ci_socket(argv[2]); timeout_ms, count = 0 are set
Recv_Create ==
    /\ backend = "recv" /\ rcv.pc = "create"
    /\ LET r == create_ci_socket(bus["ux"])
       IN  /\ bus' = [bus EXCEPT !["ux"] = r.s]
           /\ hnd' = [hnd EXCEPT !["ux"] = r.h]
    /\ rcv' = [rcv EXCEPT !.pc = "receive"]
    /\ UNCHANGED <<launcherVars, tenv, backend, hist>>

\* if (receive_message_from_socket(sock, &msg) > 0) { printf(..., ++count); ... }
Recv_Receive ==
    /\ backend = "recv" /\ rcv.pc = "receive"
    /\ LET r == receive_message_from_socket(bus["ux"], hnd["ux"])
       IN  /\ bus' = [bus EXCEPT !["ux"] = r.s]
           /\ IF r.rc > 0
                 THEN /\ rcv' = [rcv EXCEPT !.pc = "test", !.count = @ + 1]
                      /\ hist' = [hist EXCEPT !["ux"] = @ \o r.msgs]
                 ELSE /\ rcv' = [rcv EXCEPT !.pc = "test"]
                      /\ UNCHANGED hist
    /\ UNCHANGED <<launcherVars, tenv, backend, hnd>>

\* the two tests that end the loop, then usleep(10000) and the next round;
\* with a timeout the first test holds once the time has passed
Recv_Test ==
    /\ backend = "recv" /\ rcv.pc = "test"
    /\ \E elapsed \in BOOLEAN :
          rcv' = [rcv EXCEPT !.pc =
                     IF rcv.timeout_ms > 0 /\ elapsed THEN "close"
                     ELSE IF rcv.timeout_ms = 0 /\ rcv.count = 0 THEN "close"
                     ELSE "receive"]
    /\ UNCHANGED <<launcherVars, tenv, backend, bus, hnd, hist>>

\* close(sock); return 0;
Recv_Close ==
    /\ backend = "recv" /\ rcv.pc = "close"
    /\ bus' = [bus EXCEPT !["ux"] = close_handle(@, hnd["ux"])]
    /\ hnd' = [hnd EXCEPT !["ux"] = -1]
    /\ rcv' = [rcv EXCEPT !.pc = "done"]
    /\ UNCHANGED <<launcherVars, tenv, backend, hist>>

\* another process runs the send command while recv runs
Recv_Send(text) ==
    /\ backend = "recv" /\ rcv.sends < MaxSends
    /\ bus' = [bus EXCEPT !["ux"] = send_message_to_ci(@, CliMsg(text)).s]
    /\ rcv' = [rcv EXCEPT !.sends = @ + 1]
    /\ UNCHANGED <<launcherVars, tenv, backend, hnd, hist>>

\* the steps of the recv command itself
RecvStep == Recv_Create \/ Recv_Receive \/ Recv_Test \/ Recv_Close

InitRecv ==
    /\ InitState /\ config = ZeroConfig /\ argv = <<>> /\ tenv = <<>>
    /\ backend = "recv"
    /\ BusStart
    /\ \E t \in {0, 10} : rcv = [pc |-> "create", count |-> 0, timeout_ms |-> t, sends |-> 0]
NextRecv == RecvStep \/ \E text \in {"x", "y"} : Recv_Send(text)
\* the recv command is scheduled as long as it can take a step
SpecRecv == InitRecv /\ [][NextRecv]_vars /\ WF_vars(RecvStep)

(* ---------- send_message() of ci_message_bus.c up to a full queue -------- *)
\* the create command has made the queue
Fill_Create ==
    /\ backend = "fill" /\ ~Exists(bus["mq"])
    /\ LET r == create_queue(bus["mq"])
       IN  bus' = [bus EXCEPT !["mq"] = close_handle(r.s, r.h)]
    /\ hist' = [hist EXCEPT !["mq"] = <<[op |-> "create", rc |-> 0, msgs |-> <<>>]>>]
    /\ UNCHANGED <<launcherVars, tenv, rcv, backend, hnd>>

\* a process calls send_message() with a record of priority p; hist keeps the
\* last call.  The records that share a queue priority are equal in one run,
\* which keeps the number of queue contents small.
Fill_Send(p) ==
    /\ backend = "fill" /\ Exists(bus["mq"])
    /\ LET msg == [CliMsg("x") EXCEPT !.priority = p]
           buf == bus["mq"].q[bus["mq"].name]
           r == send_message(bus["mq"], msg)
       IN  /\ \A i \in 1..Len(buf) : buf[i].prio = MqPrio(p) => buf[i].msg = msg
           /\ bus' = [bus EXCEPT !["mq"] = r.s]
           /\ hist' = [hist EXCEPT !["mq"] = <<[op |-> "send", rc |-> r.rc, msgs |-> <<msg>>]>>]
    /\ UNCHANGED <<launcherVars, tenv, rcv, backend, hnd>>

InitFill ==
    /\ InitState /\ config = ZeroConfig /\ argv = <<>> /\ rcv = <<>> /\ tenv = <<>>
    /\ backend = "fill"
    /\ BusStart
NextFill == Fill_Create \/ \E p \in {-1, 0, 31, 32} : Fill_Send(p)
SpecFill == InitFill /\ [][NextFill]_vars

(* ------------------ tekton-clean-launch.c: the environment --------------- *)
\* A C string is a sequence of characters; a name of several letters stands
\* as one character.  An entry of environ or of the env list is key=value.
FROZEN == <<"_TEKTON_ENV_FROZEN">>
DEBUG == <<"DEBUG">>
TEKTON_DEBUG == <<"TEKTON_DEBUG">>
\* the character at position i, the terminating NUL behind the end
At(str, i) == IF i \in 1..Len(str) THEN str[i] ELSE "NUL"
\* strchr(str + from - 1, c): the position of the first c, 0 for NULL
strchr(str, c, from) ==
    IF \E i \in from..Len(str) : str[i] = c
       THEN CHOOSE i \in from..Len(str) : str[i] = c /\ \A j \in from..(i - 1) : str[j] # c
       ELSE 0
Chars(str, lo, hi) == IF lo <= hi THEN SubSeq(str, lo, hi) ELSE <<>>
Entry(key, value) == key \o <<"=">> \o value
KeyOf(e) == Chars(e, 1, strchr(e, "=", 1) - 1)
ValueOf(e) == Chars(e, strchr(e, "=", 1) + 1, Len(e))

\* add_env_var(): replace the first entry of the key, or append
add_env_var(list, key, value) ==
    IF \E i \in 1..Len(list) : strchr(list[i], "=", 1) > 0 /\ KeyOf(list[i]) = key
       THEN LET i == CHOOSE i \in 1..Len(list) :
                        /\ strchr(list[i], "=", 1) > 0 /\ KeyOf(list[i]) = key
                        /\ \A j \in 1..(i - 1) :
                              ~(strchr(list[j], "=", 1) > 0 /\ KeyOf(list[j]) = key)
            IN  [list EXCEPT ![i] = Entry(key, value)]
       ELSE Append(list, Entry(key, value))

\* create_env_list(): the entries of environ that hold an =, added in order
RECURSIVE create_env_list(_, _)
create_env_list(environ, list) ==
    IF environ = <<>> THEN list
    ELSE create_env_list(Tail(environ),
            IF strchr(Head(environ), "=", 1) > 0
               THEN add_env_var(list, KeyOf(Head(environ)), ValueOf(Head(environ)))
               ELSE list)

\* while (*p == ' ' || *p == '\t') p++;
RECURSIVE SkipBlanks(_, _)
SkipBlanks(line, p) == IF At(line, p) \in {" ", "TAB"} THEN SkipBlanks(line, p + 1) ELSE p
\* while (end > start && *end is in set) end--;
RECURSIVE TrimEnd(_, _, _, _)
TrimEnd(line, start, end, set) ==
    IF end > start /\ At(line, end) \in set THEN TrimEnd(line, start, end - 1, set) ELSE end

\* the body of the loop of load_env_file() for one line read by fgets()
ParseLine(line, list) ==
    LET p == SkipBlanks(line, 1)
        eq == strchr(line, "=", p)
        key_end == TrimEnd(line, p, eq - 1, {" ", "TAB"})
        value == eq + 1
        val_end == TrimEnd(line, value, Len(line), {"LF", " ", "TAB"})
        quoted == \/ At(line, value) = "DQ" /\ At(line, val_end) = "DQ"
                  \/ At(line, value) = "SQ" /\ At(line, val_end) = "SQ"
    IN  IF At(line, p) \in {"LF", "#"} \/ eq = 0 THEN list
        ELSE add_env_var(list, Chars(line, p, key_end),
                         IF quoted THEN Chars(line, value + 1, val_end - 1)
                                   ELSE Chars(line, value, val_end))

\* load_env_file(): nothing when fopen() fails, else every line in order
RECURSIVE ReadLines(_, _)
ReadLines(lines, list) ==
    IF lines = <<>> THEN list ELSE ReadLines(Tail(lines), ParseLine(Head(lines), list))
load_env_file(file, list) == IF ~file.exists THEN list ELSE ReadLines(file.lines, list)

\* set_environment(): setenv(key, value, 1) of every entry; setenv() fails
\* with EINVAL on an empty name and leaves environ alone
RECURSIVE set_environment(_, _)
set_environment(list, environ) ==
    IF list = <<>> THEN environ
    ELSE set_environment(Tail(list),
            IF strchr(Head(list), "=", 1) > 1
               THEN add_env_var(environ, KeyOf(Head(list)), ValueOf(Head(list)))
               ELSE environ)
\* getenv() in the exec'd program: the value in a sequence of one, <<>> for NULL
getenv(environ, key) ==
    IF \E i \in 1..Len(environ) : KeyOf(environ[i]) = key
       THEN <<ValueOf(environ[CHOOSE i \in 1..Len(environ) :
                       KeyOf(environ[i]) = key /\ \A j \in 1..(i - 1) : KeyOf(environ[j]) # key])>>
       ELSE <<>>

\* What the files hold: a definition has a key, a value and a form; the text
\* of its line follows from them.
Layers == <<"home", "tekton", "local">>
Forms == {"plain", "quoted", "comment"}
LineText(d) ==
    CASE d.form = "plain" -> Entry(d.key, d.value) \o <<"LF">>
      [] d.form = "quoted" -> d.key \o <<"=", "DQ">> \o d.value \o <<"DQ", "LF">>
      [] d.form = "comment" -> <<"#">> \o Entry(d.key, d.value) \o <<"LF">>
Definitions ==
    [key : {<<"K">>, FROZEN}, value : {<<>>, <<"v">>, <<"w">>}, form : Forms]
        \cup {[key |-> DEBUG, value |-> <<"0">>, form |-> "plain"]}
FileContents == {<<>>} \cup {<<d>> : d \in Definitions}
Environs == {<<>>, <<Entry(<<"K">>, <<"u">>)>>,
             <<Entry(<<"K">>, <<"u">>), Entry(FROZEN, <<"0">>)>>}

\* main(), lines 88-117
Tk_CreateEnvList ==
    /\ backend = "clean" /\ tenv.pc = "create_env_list"
    /\ tenv' = [tenv EXCEPT !.pc = "home", !.env = create_env_list(tenv.environ, <<>>)]
    /\ UNCHANGED <<launcherVars, rcv, backend, bus, hnd, hist>>
Tk_LoadEnvFile(f) ==
    /\ backend = "clean" /\ tenv.pc = Layers[f]
    /\ tenv' = [tenv EXCEPT
          !.pc = IF f < Len(Layers) THEN Layers[f + 1] ELSE "frozen",
          !.env = load_env_file(
                     [exists |-> tenv.present[f],
                      lines |-> [i \in 1..Len(tenv.files[f]) |-> LineText(tenv.files[f][i])]],
                     tenv.env)]
    /\ UNCHANGED <<launcherVars, rcv, backend, bus, hnd, hist>>
Tk_Frozen ==
    /\ backend = "clean" /\ tenv.pc = "frozen"
    /\ tenv' = [tenv EXCEPT !.pc = "debug", !.env = add_env_var(tenv.env, FROZEN, <<"1">>)]
    /\ UNCHANGED <<launcherVars, rcv, backend, bus, hnd, hist>>
Tk_Debug ==
    /\ backend = "clean" /\ tenv.pc = "debug"
    /\ tenv' = [tenv EXCEPT
          !.pc = "set_environment",
          !.env = IF tenv.debug
                     THEN add_env_var(add_env_var(tenv.env, TEKTON_DEBUG, <<"1">>), DEBUG, <<"1">>)
                     ELSE tenv.env]
    /\ UNCHANGED <<launcherVars, rcv, backend, bus, hnd, hist>>
Tk_SetEnvironment ==
    /\ backend = "clean" /\ tenv.pc = "set_environment"
    /\ tenv' = [tenv EXCEPT !.pc = "exec",
                            !.environ = set_environment(tenv.env, tenv.environ)]
    /\ UNCHANGED <<launcherVars, rcv, backend, bus, hnd, hist>>

InitClean ==
    /\ InitState /\ config = ZeroConfig /\ argv = <<>> /\ rcv = <<>>
    /\ backend = "clean"
    /\ bus = <<>> /\ hnd = <<>> /\ hist = <<>>
    /\ \E e \in Environs, fs \in [1..Len(Layers) -> FileContents], d \in BOOLEAN :
          tenv = [pc |-> "create_env_list", inherited |-> e, environ |-> e, files |-> fs,
                  present |-> [f \in 1..Len(Layers) |-> fs[f] # <<>>],
                  debug |-> d, env |-> <<>>]
NextClean ==
    \/ Tk_CreateEnvList
    \/ \E f \in 1..Len(Layers) : Tk_LoadEnvFile(f)
    \/ Tk_Frozen
    \/ Tk_Debug
    \/ Tk_SetEnvironment
SpecClean == InitClean /\ [][NextClean]_vars

(* ------------------------------ the claims ----------------------------- *)
\* fork() has created the child
Spawned == child # "none"
\* the status word s is that of a child a signal terminated
KilledBySignal(s) == (s % 128) # 0
\* the pcs of main() from the first select() of either relay loop onwards
RelayPcs == {"select", "read_stdin", "write_stdin", "read_stdout", "read_stderr", "poll",
             "sb_select", "sb_recv", "sb_write", "sb_read", "sb_send", "close_sock",
             "cleanup", "final_wait", "return"}

\* C1: when main() returns after the relay loop, one child was created and
\* exactly one wait call was issued for it: one that reaped it, and none on
\* a child already reaped.
C1_OneReapOnReturn ==
    (exitVia = "return" /\ log.selectErrors = 0) =>
        (log.forks = 1 /\ log.reaps = 1 /\ log.staleWaits = 0)

\* C2: when the launcher exits on a path other than the signal handler after
\* the child was spawned, the child has been sent SIGTERM and has been reaped.
C2_SignaledAndReapedAtExit ==
    (exitVia \in {"return", "startup_error", "connect_error"} /\ Spawned) =>
        (log.kills >= 1 /\ child = "reaped")

\* C3: when main() returns after the relay loop and the child exited by
\* itself with status s, the launcher's exit code is s.
C3_ExitCodeIsChildStatus ==
    (exitVia = "return" /\ log.selectErrors = 0 /\ ~KilledBySignal(childStatus)) =>
        exitCode = childStatus \div 256

\* C4: when main() returns after reaping, with its final waitpid, a child
\* that a signal terminated, the launcher's exit code is not 0.
C4_NonZeroForSignaledChild ==
    (exitVia = "return" /\ log.selectErrors = 0 /\ status # UNINIT
        /\ KilledBySignal(childStatus)) =>
        exitCode # 0

\* C5: when the launcher exits through handle_signal() after the child was
\* spawned, the handler ran once, sent one SIGTERM to the child while it was
\* still the launcher's child, reaped it itself, and the exit status is 0.
C5_SignalTeardown ==
    (exitVia = "signal" /\ Spawned) =>
        /\ exitCode = 0
        /\ log.handlers = 1
        /\ log.kills = 1 /\ log.staleKills = 0
        /\ log.staleWaits = 0
        /\ child = "reaped"

\* C6: the environment the child starts with holds TEKTON_CI_TOOL when a tool
\* name is configured and TEKTON_CI_PORT when a port greater than 0 is.
C6_EnvBeforeFork ==
    Spawned =>
        /\ config.tool_name => "TEKTON_CI_TOOL" \in childEnv
        /\ config.port > 0 => "TEKTON_CI_PORT" \in childEnv

\* C7: once a connect() of the retry loop has been accepted, the launcher
\* does not take the failure branch: it neither signals the child for a
\* failed connection nor exits with the connection error.
C7_AcceptedWithinRetries ==
    net.state # "refusing" =>
        (pc \notin {"fail_kill", "fail_exit"} /\ exitVia # "connect_error")

\* C8: while every connect() has been refused, the launcher is never in the
\* relay loop or past it; it leaves the retry loop only after 50 attempts,
\* and it then sends the child SIGTERM and exits with a non-zero status.
C8_RetryExhaustion ==
    net.state = "refusing" =>
        /\ pc \notin RelayPcs
        /\ pc \in {"retry_check", "fail_kill", "fail_exit"} => attempts = 50
        /\ pc = "fail_exit" => log.kills >= 1
        /\ exitVia \in {"return", "connect_error"} =>
              (exitVia = "connect_error" /\ attempts = 50 /\ log.kills >= 1 /\ exitCode # 0)

\* a launcher that found every connect() refused has exited after 50
\* attempts, with status 1 and the SIGTERM pending for the running child
C8_Witness ==
    /\ exitVia = "connect_error" /\ net.state = "refusing"
    /\ attempts = 50 /\ exitCode = 1
    /\ child = "running" /\ termPending

\* C9: in stdio-relay mode, when main() returns, the bytes written to the
\* launcher's stdout are all the bytes the child wrote to its stdout, in order.
C9_ChildStdoutRelayed ==
    (exitVia = "return" /\ log.selectErrors = 0 /\ config.socket_mode = 0) =>
        trace.ownOut = trace.childOut

\* C10: in stdio-relay mode the bytes written to the child's stdin are always
\* a prefix of the bytes read from the launcher's stdin, and all of them
\* whenever the launcher is not between the read and the write of a chunk.
C10_OwnStdinDelivered ==
    config.socket_mode = 0 =>
        /\ IsPrefix(trace.childIn, trace.ownInRead)
        /\ (exitVia \in {"none", "return"} /\ pc # "write_stdin") =>
               trace.childIn = trace.ownInRead

\* main() is suspended in the select() of the stdio relay loop: no descriptor
\* of its set is readable
BlockedInSelect == MainRuns /\ pc = "select" /\ ReadyStdio = {}

\* C11: in stdio-relay mode, when the child exits while main() is suspended in
\* select(), the select() returns: some descriptor of its set is readable from
\* then on, so the loop reaches its exit-status poll and ends.
C11_WaitReturnsOnChildExit ==
    [][(BlockedInSelect /\ child = "running" /\ child' = "zombie") => ReadyStdio' # {}]_vars

\* C12: in stdio-relay mode the write end of the child's stdin is closed at
\* most once, no close() or write() is ever issued on its number after it was
\* closed, and once end-of-stream on the launcher's stdin has closed it (the
\* variable then holds -1) it was closed exactly once and no write is pending.
C12_StdinClosedOnce ==
    config.socket_mode = 0 =>
        /\ log.stdinCloses <= 1
        /\ ~log.staleUse
        /\ pc = "write_stdin" => fd.stdin_w = "open"
        /\ fd.stdin_w = "neg1" => log.stdinCloses = 1

\* main() has returned after end-of-stream on its stdin closed the child's
\* stdin, what it had read before went to the child, and the loop went on to
\* relay child output before the cleanup closed the descriptors
C12_Witness ==
    /\ exitVia = "return" /\ fd.stdin_w = "neg1" /\ log.stdinCloses = 1
    /\ trace.childIn # <<>> /\ trace.ownOut # <<>>

\* the steps the launcher process takes by itself: every step of main() and of
\* handle_signal() but the failure of a select(), which the kernel decides
LauncherStep ==
    \/ main
    \/ Main_Fcntl \/ Main_Select \/ Main_ReadStdin \/ Main_WriteStdin
    \/ Main_RelayStdout \/ Main_RelayStderr \/ Main_Poll
    \/ Handler_Wait

\* launches without --port and without --tool: the tool name decides only an
\* environment variable, nothing the relay loop reads
InitStdioFair == InitStdio /\ ~config.tool_name

\* stdio-relay mode with a launcher process that is scheduled: a step it can
\* take is eventually taken
SpecStdioFair == InitStdioFair /\ [][NextStdio]_vars /\ WF_vars(LauncherStep)

\* the pcs of main() inside the stdio relay loop
StdioLoopPcs == {"select", "read_stdin", "write_stdin", "read_stdout", "read_stderr", "poll"}

\* C13: in stdio-relay mode, after end-of-stream on the launcher's stdin has
\* closed the child's stdin, main() stays in the relay loop for as long as the
\* child runs with its stdout open (and no select() failed), and a byte then
\* waiting in the stdout or stderr pipe is eventually relayed unless the child
\* ends, closes its stdout, or the launcher is signalled first.
C13_RelayGoesOnAfterStdinEof ==
    /\ [](  (fd.stdin_w = "neg1" /\ child = "running" /\ childFd.out
                /\ log.selectErrors = 0 /\ exitVia = "none")
            => (pc \in StdioLoopPcs /\ ~BlockedInSelect))
    /\ (fd.stdin_w = "neg1" /\ outPipe # <<>>)
          ~> (outPipe = <<>> \/ child # "running" \/ hstack # <<>>
                \/ exitVia # "none" \/ log.selectErrors > 0)
    /\ (fd.stdin_w = "neg1" /\ errPipe # <<>>)
          ~> (errPipe = <<>> \/ child # "running" \/ ~childFd.out \/ hstack # <<>>
                \/ exitVia # "none" \/ log.selectErrors > 0)

\* after end-of-stream on the launcher's stdin closed the child's stdin, the
\* loop is in a later iteration, the child still runs, output was relayed and
\* the next byte of child output is about to be
C13_Witness ==
    /\ fd.stdin_w = "neg1" /\ child = "running" /\ MainRuns
    /\ pc = "read_stdout" /\ "out" \in rset /\ outPipe # <<>>
    /\ trace.ownOut # <<>>

\* C14: in stdio-relay mode, after end-of-stream on the child's stderr, main()
\* stays in the relay loop for as long as the child runs with its stdout open
\* (and no select() failed), and a byte then waiting in the stdout pipe is
\* eventually relayed unless the child ends, closes its stdout, or the launcher
\* is signalled first.
C14_RelayGoesOnAfterStderrEof ==
    /\ [](  (WritersGone("err") /\ errPipe = <<>> /\ pc \notin {"putenv", "fcntl"}
                /\ child = "running" /\ childFd.out
                /\ log.selectErrors = 0 /\ exitVia = "none")
            => pc \in StdioLoopPcs)
    /\ (WritersGone("err") /\ errPipe = <<>> /\ outPipe # <<>>)
          ~> (outPipe = <<>> \/ child # "running" \/ ~childFd.out \/ hstack # <<>>
                \/ exitVia # "none" \/ log.selectErrors > 0)

\* the read of the stdout branch is about to return 0: select() reported the
\* pipe, it is empty and every write end is closed
StdoutAtEof ==
    /\ MainRuns /\ pc = "read_stdout"
    /\ "out" \in rset /\ outPipe = <<>> /\ WritersGone("out")

\* C15: in stdio-relay mode, the step of main() that reads zero bytes from the
\* child's stdout leaves the relay loop for the cleanup at once: the stderr
\* branch and the exit-status poll of that iteration are skipped, whatever is
\* pending on the launcher's stdin or in the stderr pipe.
C15_StdoutEofEndsLoop ==
    [][(StdoutAtEof /\ pc' # pc) =>
          (pc' = "cleanup" /\ UNCHANGED <<errPipe, ownIn, child, trace>>)]_vars

\* the loop was left through the stdout end-of-stream: no select() failed and
\* the child still runs, while the launcher's stdin is open and a byte waits
\* in the stderr pipe
C15_Witness ==
    /\ pc = "cleanup" /\ log.selectErrors = 0 /\ child = "running"
    /\ fd.stdin_w = "open" /\ ~ownInEof /\ errPipe # <<>>

\* the pcs of main() once socket_bridge() has left its loop
AfterBridgePcs == {"close_sock", "cleanup", "final_wait", "return", "exited"}

\* a call of the bridge loop is about to return end-of-stream or an error, or
\* to accept less than the chunk
BridgeCallFails ==
    \/ pc = "sb_recv" /\ "sock" \in rset /\ net.toLauncher = <<>>
    \/ pc = "sb_write" /\ ~childFd.in
    \/ pc = "sb_read" /\ "out" \in rset /\ outPipe = <<>>
    \/ pc = "sb_send" /\ net.state # "connected"

\* C16: in socket-bridge mode, while the bridge loop runs, the bytes written
\* to the child's stdin are exactly the bytes received from the network and
\* the bytes sent to the network are exactly the bytes read from the child's
\* stdout (the chunk in hand counted); the step on which a recv() or read()
\* returns no data, or a write() or send() does not take the chunk, leaves the
\* loop; and once the loop is left no byte is received, read, written or sent.
C16_BridgeRelay ==
    /\ []((config.socket_mode = 1 /\ pc \in {"sb_select", "sb_recv", "sb_read", "sb_send"})
             => trace.childIn = trace.netRecv)
    /\ []((config.socket_mode = 1 /\ pc = "sb_write")
             => trace.childIn \o buffer = trace.netRecv)
    /\ []((config.socket_mode = 1 /\ pc \in {"sb_select", "sb_recv", "sb_write", "sb_read"})
             => net.fromLauncher \o outPipe = trace.childOut)
    /\ []((config.socket_mode = 1 /\ pc = "sb_send")
             => net.fromLauncher \o buffer \o outPipe = trace.childOut)
    /\ []((config.socket_mode = 1 /\ pc \in AfterBridgePcs)
             => (IsPrefix(trace.childIn, trace.netRecv)
                   /\ IsPrefix(net.fromLauncher, trace.childOut)))
    /\ [][(MainRuns /\ BridgeCallFails /\ pc' # pc) => pc' = "close_sock"]_vars
    /\ [][(config.socket_mode = 1 /\ pc \in AfterBridgePcs)
             => (/\ trace'.childIn = trace.childIn
                 /\ trace'.netRecv = trace.netRecv
                 /\ net'.fromLauncher = net.fromLauncher
                 /\ IsPrefix(net.toLauncher, net'.toLauncher)
                 /\ IsPrefix(outPipe, outPipe'))]_vars

\* socket_bridge() has returned after it moved bytes both ways: the byte the
\* peer sent reached the child's stdin and both bytes of child output reached
\* the peer
C16_Witness ==
    /\ pc = "cleanup" /\ log.selectErrors = 0
    /\ trace.childIn = <<1>> /\ trace.netRecv = <<1>>
    /\ Len(net.fromLauncher) = MaxChildOut /\ net.fromLauncher = trace.childOut

\* main() is suspended inside write() on the child's stdin: the pipe has no
\* room for the chunk and the child still holds the read end
BlockedInWrite ==
    /\ MainRuns /\ pc \in {"write_stdin", "sb_write"}
    /\ fd.stdin_w = "open" /\ ~PipeWriteEnabled(buffer)

\* a write of the child to its stdout would block: the pipe is full and only
\* the launcher, which holds the read end, can drain it
ChildStdoutFull ==
    /\ child = "running" /\ childFd.out
    /\ fd.stdout_r = "open" /\ Len(outPipe) = PipeCap

\* C17: once the relay loop runs, main() is never suspended in a write to the
\* child's stdin while the child's stdout pipe is full, the state in which
\* launcher and child each wait for the other to read.
C17_NoMutualBlocking == ~(BlockedInWrite /\ ChildStdoutFull)

BridgeLoopPcs == {"sb_select", "sb_recv", "sb_write", "sb_read", "sb_send"}

\* C19: in socket-bridge mode a write of the running child to its stderr
\* never blocks: while the bridge loop runs, the stderr pipe always has room.
C19_StderrWriteNeverBlocks ==
    (config.socket_mode = 1 /\ pc \in BridgeLoopPcs
        /\ child = "running" /\ childFd.err /\ fd.stderr_r = "open")
        => Len(errPipe) < PipeCap

\* the pcs of main() inside the if (config->socket_mode) branch
SocketBranchPcs == {"socket", "connect_loop", "retry_check", "fail_kill", "fail_exit",
                    "close_sock"} \cup BridgeLoopPcs
\* the pcs of main() inside its else branch
StdioBranchPcs == {"fcntl"} \cup StdioLoopPcs

\* C20: main() is in its socket-bridge branch only when the configured port
\* is greater than 0, and in its stdio-relay branch only when no port is
\* configured or the configured port is 0 or negative.
C20_SocketModeIffPortPositive ==
    /\ pc \in SocketBranchPcs => config.port > 0
    /\ pc \in StdioBranchPcs => config.port <= 0

\* the tokens that follow the first --args of the command line av
AfterArgs(av) ==
    IF \E i \in 1..Len(av) : av[i] = OPT_ARGS
       THEN Drop(av, CHOOSE i \in 1..Len(av) :
                        av[i] = OPT_ARGS /\ \A j \in 1..(i - 1) : av[j] # OPT_ARGS)
       ELSE <<>>

\* C21: once parse_args() has returned, the argument vector handed to
\* execvp() is the executable path followed by every token after --args,
\* in order and unmodified, however many there are
C21_ArgsPassedVerbatim ==
    pc = "signal" =>
        config.args = <<config.executable>> \o AfterArgs(argv)

\* the child ended as it does when execvp() fails: exit(1), with nothing read
\* from its stdin and nothing written to its stdout
ExecFailed ==
    /\ child \in {"zombie", "reaped"}
    /\ childStatus = WExited(1)
    /\ trace.childOut = <<>>
    /\ inPipe = trace.childIn

\* C22: when execvp() fails in the child, a launcher that ends by itself
\* (return from main or exit after a failed start) ends with a non-zero status
C22_ExecFailureExitsNonZero ==
    (exitVia \in {"return", "startup_error", "connect_error"} /\ ExecFailed) =>
        exitCode # 0

\* the positions of main() before the pipes exist, and before child_pid is set
BeforePipesPcs == {"parse_args", "signal", "pipe"}
BeforeSpawnPcs == BeforePipesPcs \cup {"fork", "store_pid"}

\* C23: a missing --executable, a failed pipe() or a failed fork() ends the
\* launcher with status 1: main() goes on only with an executable, with the
\* pipes and with a child pid, and a start-up exit taken without a child pid
\* has status 1, no child created and not one byte relayed
C23_StartupFailuresExitOne ==
    /\ (exitVia = "startup_error" /\ child_pid <= 0) =>
          /\ exitCode = 1
          /\ child = "none" /\ log.forks = 0
          /\ \A k \in DOMAIN trace : trace[k] = <<>>
    /\ pc \notin {"parse_args", "exited"} => config.executable
    /\ pc \notin BeforePipesPcs \cup {"exited"} => fd.stdout_r # "none"
    /\ pc \notin BeforeSpawnPcs \cup {"exited"} => (child_pid > 0 /\ Spawned)
\* fork() failed after the pipes were created and the launcher has exited
C23_Witness ==
    /\ exitVia = "startup_error" /\ exitCode = 1
    /\ config.executable /\ fd.stdout_r = "open" /\ ret < 0 /\ child = "none"

\* the positions of main() after the stdio relay loop
AfterStdioLoopPcs == {"cleanup", "final_wait", "return", "exited"}

\* C28: in stdio mode a read of the child's stdout that failed with an error
\* other than would-block has ended the relay loop, as a zero-length read does
C28_StdoutReadErrorEndsLoop ==
    log.readErrors > 0 => pc \in AfterStdioLoopPcs

\* the positions of main() at the select() of either relay loop, and those
\* after either loop
SelectPcs == {"select", "sb_select"}
AfterLoopPcs == {"close_sock", "cleanup", "final_wait", "return", "exited"}

\* C29: in both relay loops a select() that fails with EINTR leaves the
\* launcher at the same select() with no byte read or written and no
\* descriptor changed; a select() that fails otherwise ends the loop, and the
\* launcher then closes its descriptors and reaps the child before it returns
C29_WaitFailureHandling ==
    /\ [][log'.eintrs # log.eintrs =>
            /\ pc \in SelectPcs /\ pc' = pc
            /\ UNCHANGED <<ioVars, childVars, buffer, rset, trace, exitVia>>
            /\ log'.selectErrors = log.selectErrors]_vars
    /\ [][log'.selectErrors # log.selectErrors =>
            /\ pc \in SelectPcs /\ pc' \in {"cleanup", "close_sock"}
            /\ UNCHANGED <<ioVars, childVars, buffer, trace>>]_vars
    /\ [](log.selectErrors > 0 => pc \in AfterLoopPcs)
    /\ []((log.selectErrors > 0 /\ exitVia = "return") =>
            /\ fd.stdin_w # "open" /\ fd.stdout_r = "closed" /\ fd.stderr_r = "closed"
            /\ config.socket_mode = 1 => fd.sock = "closed"
            /\ child = "reaped" /\ log.reaps = 1)
\* a bridge run with an interrupted select() and later a failed one has returned
C29_Witness ==
    /\ log.eintrs > 0 /\ log.selectErrors > 0
    /\ config.socket_mode = 1 /\ trace.netRecv # <<>>
    /\ exitVia = "return" /\ child = "reaped"

\* child_pid is written once, by main() where it stores what fork() returned,
\* from -1 to the child's pid; no step of handle_signal() changes it
ChildPidWrittenOnce ==
    /\ [](child_pid \in {-1, ChildPid})
    /\ [][child_pid' # child_pid =>
            (child_pid = -1 /\ child_pid' = ChildPid /\ pc = "store_pid" /\ hstack = <<>>)]_vars
    /\ [][(hstack # <<>> \/ hstack' # <<>>) => child_pid' = child_pid]_vars

\* C30 as stated: child_pid is written once at spawn time and only read by
\* the handler, and a launcher that a signal ended before the spawn has
\* exited 0 without signaling any process
C30_ChildPidHandle_AnySignalBeforeSpawn ==
    /\ ChildPidWrittenOnce
    /\ []((exitVia \in {"signal", "killed"} /\ ~Spawned) =>
            (exitCode = 0 /\ log.kills = 0))

\* C30, amended: child_pid is written once at spawn time and only read by
\* the handler, and a signal that starts handle_signal() before the spawn
\* makes the launcher exit 0 at once without signaling any process
C30_ChildPidHandle ==
    /\ ChildPidWrittenOnce
    /\ [][(log'.handlers # log.handlers /\ ~Spawned) =>
            /\ child_pid = -1
            /\ exitVia' = "signal" /\ exitCode' = 0
            /\ log'.kills = 0 /\ termPending' = termPending
            /\ hstack' = <<>>]_vars
\* the handler ran between pipe() and fork(), and a run stored the pid
C30_Witness ==
    /\ exitVia = "signal" /\ exitCode = 0 /\ log.handlers = 1
    /\ child = "none" /\ child_pid = -1 /\ fd.stdout_r = "open"

\* the calls made so far on the backend in use, and the call just made
Calls == hist[backend]
JustCalled(op) ==
    /\ Len(hist'[backend]) = Len(Calls) + 1
    /\ hist'[backend][Len(Calls) + 1].op = op
\* call i was a send that succeeded on an existing queue that held nothing
SentToEmpty(i) ==
    /\ Calls[i].op = "send" /\ Calls[i].rc = 0
    /\ Calls[i].exists /\ Calls[i].empty
\* call i was a send to a name that did not exist
SentToNoName(i) == Calls[i].op = "send" /\ ~Calls[i].exists

\* C24: in either backend, when a send of a record to an existing, empty queue
\* succeeded and the next call is a receive, that receive returns 1 with a
\* record equal to the one sent in every field, and a receive that follows it
\* at once returns 0 with no record
C24_SendThenReceive ==
    \A i \in 1..Len(Calls) :
        (SentToEmpty(i) /\ i + 1 <= Len(Calls) /\ Calls[i + 1].op = "receive") =>
            /\ Calls[i + 1].rc = 1
            /\ Calls[i + 1].msgs = Calls[i].msgs
            /\ (i + 2 <= Len(Calls) /\ Calls[i + 2].op = "receive") =>
                  (Calls[i + 2].rc = 0 /\ Calls[i + 2].msgs = <<>>)
\* the socket backend delivered the record of priority 40 and then nothing
C24_Witness ==
    /\ backend = "ux" /\ Len(Calls) >= 3
    /\ \E i \in 1..(Len(Calls) - 2) :
          /\ SentToEmpty(i) /\ Calls[i].msgs[1].priority = 40
          /\ Calls[i + 1].op = "receive" /\ Calls[i + 1].msgs = Calls[i].msgs
          /\ Calls[i + 2].op = "receive" /\ Calls[i + 2].rc = 0

\* C25: in either backend a send to a name that does not exist returns -1
\* and changes nothing (no queue is created, nothing is kept); when the
\* queue is created later and read at once, with no successful send since,
\* the receive returns no record
C25_SendToMissingQueue ==
    /\ [][(JustCalled("send") /\ ~Exists(bus[backend])) =>
            (hist'[backend][Len(Calls) + 1].rc = -1 /\ bus' = bus)]_vars
    /\ [](\A i, j \in 1..Len(Calls) :
            (/\ i < j /\ j + 1 <= Len(Calls)
             /\ SentToNoName(i)
             /\ Calls[j].op = "create" /\ Calls[j + 1].op = "receive"
             /\ \A k \in (i + 1)..(j - 1) : ~(Calls[k].op = "send" /\ Calls[k].rc = 0))
            => (Calls[j + 1].rc = 0 /\ Calls[j + 1].msgs = <<>>))
\* the kernel queue was created, destroyed, sent to, created again and read
C25_Witness ==
    /\ backend = "mq" /\ Len(Calls) = 5
    /\ Calls[1].op = "create" /\ Calls[2].op = "destroy"
    /\ SentToNoName(3) /\ Calls[3].rc = -1
    /\ Calls[4].op = "create" /\ Calls[5].op = "receive" /\ Calls[5].rc = 0

\* C26: in either backend a receive on a descriptor whose queue holds no
\* record returns 0, not -1, with no record, and leaves every queue as it was
C26_ReceiveOnEmptyQueue ==
    [][(JustCalled("receive") /\ Empty(bus[backend], hnd[backend])) =>
          /\ hist'[backend][Len(Calls) + 1].rc = 0
          /\ hist'[backend][Len(Calls) + 1].msgs = <<>>
          /\ bus' = bus]_vars
\* a receive found the existing queue of the socket backend empty
C26_Witness ==
    /\ backend = "ux" /\ Len(Calls) >= 2
    /\ Calls[Len(Calls)].op = "receive" /\ Calls[Len(Calls)].rc = 0
    /\ Calls[Len(Calls)].exists /\ Calls[Len(Calls)].empty

\* C27: after any sequence of create, send, recv and destroy commands run by
\* both programs, each command had the same exit status and printed the same
\* records in both
C27_BackendsInterchangeable == hist["mq"] = hist["ux"]

\* C31: no kill() and no waitpid() of the launcher is issued on a child that
\* was already reaped, in main() or in handle_signal()
C31_NoKillOrWaitAfterReap ==
    log.staleKills = 0 /\ log.staleWaits = 0

\* C32: the recv command of the socket backend, run without a timeout,
\* ends, whatever the senders do while it runs
C32_RecvTerminates ==
    (backend = "recv" /\ rcv.timeout_ms = 0) ~> (rcv.pc = "done")

\* the entries of the kernel queue the name leads to
MqEntries == IF Exists(bus["mq"]) THEN bus["mq"].q[bus["mq"].name] ELSE <<>>
\* the last call was a send, with this result
LastSend(b, rc) == b["mq"] # <<>> /\ b["mq"][1].op = "send" /\ b["mq"][1].rc = rc

\* C33: the kernel queue never holds more than 100 entries; every entry has a
\* queue priority in 0..31, which is its record's priority or 31 when that is
\* outside 0..31, and the record keeps its own priority; a send to a queue of
\* 100 entries returns -1, and a send that returns -1 leaves the queue as it was
C33_SendNeverBlocks ==
    /\ [](/\ Len(MqEntries) <= 100
          /\ \A i \in 1..Len(MqEntries) :
                /\ MqEntries[i].prio \in 0..31
                /\ MqEntries[i].prio =
                      (IF MqEntries[i].msg.priority \in 0..31
                          THEN MqEntries[i].msg.priority ELSE 31)
          /\ (LastSend(hist, 0) => \E i \in 1..Len(MqEntries) :
                                      MqEntries[i].msg = hist["mq"][1].msgs[1]))
    /\ [][(Len(MqEntries) = 100 /\ hist' # hist) => (LastSend(hist', -1) /\ bus' = bus)]_vars
    /\ [][(hist' # hist /\ LastSend(hist', -1)) => bus' = bus]_vars
\* the queue holds 100 entries, one of record priority 32, and a send failed
C33_Witness ==
    /\ backend = "fill" /\ Len(MqEntries) = 100 /\ LastSend(hist, -1)
    /\ \E i \in 1..100 : MqEntries[i].msg.priority = 32 /\ MqEntries[i].prio = 31

\* the definitions of key k in the layers, in the order of the merge
LayerValues(k) ==
    LET inh == [i \in 1..Len(tenv.inherited) |->
                    IF KeyOf(tenv.inherited[i]) = k THEN <<ValueOf(tenv.inherited[i])>> ELSE <<>>]
        of(f) == IF tenv.files[f] # <<>> /\ tenv.files[f][1].key = k
                    /\ tenv.files[f][1].form # "comment"
                    THEN <<tenv.files[f][1].value>> ELSE <<>>
        cat[i \in 0..Len(inh)] == IF i = 0 THEN <<>> ELSE cat[i - 1] \o inh[i]
    IN  cat[Len(inh)] \o of(1) \o of(2) \o of(3)
LastLayerWins ==
    \A k \in {<<"K">>, DEBUG} :
        LayerValues(k) # <<>> => getenv(tenv.environ, k) = <<LayerValues(k)[Len(LayerValues(k))]>>
NoDuplicateKeys ==
    \A i, j \in 1..Len(tenv.env) : KeyOf(tenv.env[i]) = KeyOf(tenv.env[j]) => i = j
FrozenExported == getenv(tenv.environ, FROZEN) = <<<<"1">>>>

\* C34: when the environment launcher execs the program, every key some layer
\* defines is exported with the value of the last layer that defines it
\* (inherited environment, $HOME/.env, .env.tekton, .env.local, in this order),
\* the merged list holds no key twice, and _TEKTON_ENV_FROZEN is exported as 1
C34_LayersMergedInOrder ==
    backend = "clean" =>
        /\ NoDuplicateKeys
        /\ tenv.pc = "exec" => LastLayerWins /\ FrozenExported

====
